---------------------------- MODULE Spec2Model ----------------------------
(***************************************************************************)
(* A model of the xdumps rendering engine of mstair-common:                *)
(*   - the value / token data model          (xdumps/model.py)             *)
(*   - the customizer registry and its chain (xdumps/customizer_registry)  *)
(*   - the token stream traversal            (xdumps/token_stream.py)      *)
(*   - the lookahead cursor                  (base/types.py)               *)
(*   - the formatter and the top-level API   (xdumps/view.py, xdumps_api)  *)
(*                                                                         *)
(* Python values are records [t, a, items]: t is the runtime type, a the   *)
(* atom's text (or the class name of a dataclass), items the children in   *)
(* iteration order (a dict's items are its (key, value) 2-tuples).         *)
(*                                                                         *)
(* A handler's statements run one after another.  Where a later statement  *)
(* uses what an earlier one produced, the operators below write            *)
(*     CHOOSE r_ \in { body : x \in {e} } : TRUE                           *)
(* which is body with x bound to the value of e, e being evaluated once.   *)
(***************************************************************************)
EXTENDS Integers, Sequences, FiniteSets, TLC

VARIABLES
    customizers,   \* CustomizerRegistry.customizers: the ordered list
    call,          \* the last operation on the registry and what it did
    strikes,       \* per always-raising customizer: invocations since it was registered
    stream         \* the last TokenStream iteration / xdumps call and what it produced

vars == <<customizers, call, strikes, stream>>

(***************************************************************************)
(* Bounds of the model.                                                    *)
(***************************************************************************)
MaxCustomizers == 6    \* registry length at which register is no longer offered
MaxIdx == 2            \* largest idx handed to register
MaxDepthArg == 0       \* largest depth handed to a direct customize call
MaxLen == 3            \* most items of a generated container
MaxWidth == 2          \* largest max_width handed to the width limiter
MaxDepth == 1          \* largest max_depth handed to the depth limiter
RecursionLimit == 4    \* container depth at which the interpreter's recursion limit
                       \* (sys.getrecursionlimit() frames) ends a traversal

(***************************************************************************)
(* Values.                                                                 *)
(***************************************************************************)
V(t, a, items) == [t |-> t, a |-> a, items |-> items]

MISSING == V("MISSING", "", <<>>)
NoneV == V("NoneType", "", <<>>)
IntV(a) == V("int", a, <<>>)
StrV(a) == V("str", a, <<>>)
BytesV(a) == V("bytes", a, <<>>)
BoolV(a) == V("bool", a, <<>>)
FloatV(a) == V("float", a, <<>>)
ObjectV(a) == V("object", a, <<>>)
XRawString(a) == V("XRawString", a, <<>>)
ListV(items) == V("list", "", items)
TupleV(items) == V("tuple", "", items)
SetV(items) == V("set", "", items)
FrozensetV(items) == V("frozenset", "", items)
DictV(pairs) == V("dict", "", pairs)
DataclassV(name, fields) == V("dataclass", name, fields)

Pair(k, v) == TupleV(<<k, v>>)

\* Two object graphs with a cycle: the list a = [a, 1] that holds itself, and
\* an instance n of a dataclass Node with the one field me, n.me = n.
SelfList == V("list", "self", <<>>)
SelfRecord == V("dataclass", "Node", <<>>)

\* what iterating a container (or reading a dataclass's fields) yields
Items(v) ==
    IF v = SelfList THEN <<SelfList, IntV("1")>>
    ELSE IF v = SelfRecord THEN <<Pair(StrV("me"), SelfRecord)>>
    ELSE v.items

IsMapping(v) == v.t = "dict"
IsSequence(v) == v.t \in {"list", "tuple", "str", "bytes", "XRawString"}
IsSet(v) == v.t \in {"set", "frozenset"}
IsStrOrBytes(v) == v.t \in {"str", "bytes", "XRawString"}
IsDataclass(v) == v.t = "dataclass"
IsException(v) == v.t = "Exception"
IsPath(v) == v.t = "Path"
IsBuiltinType(v) == v.t \notin {"XRawString", "dataclass", "Path", "object"}
TypeName(v) == IF v.t \in {"dataclass", "Exception"} THEN v.a ELSE v.t

\* dataclasses declared with repr=False that define __repr__ as their type name
OwnReprTypes == {"E"}

\* repr(value): the generated __repr__ of a dataclass reads every field, and
\* a container's repr calls the repr of its items (a cycle is cut by repr).
RECURSIVE ReprRaises(_)
ReprRaises(v) ==
    \/ IsDataclass(v) /\ v.a \notin OwnReprTypes /\ \E i \in 1..Len(v.items) : v.items[i].items[2] = MISSING
    \/ \E i \in 1..Len(v.items) : ReprRaises(v.items[i])

\* Python's == between two hashable values used as dict keys or set members
KeyEq(k1, k2) ==
    IF k1.t \in {"str", "XRawString"} /\ k2.t \in {"str", "XRawString"}
    THEN k1.a = k2.a
    ELSE k1 = k2

\* d[k] = v on a dict's items: an equal key keeps its position and its key object
RECURSIVE DictSetItem(_, _, _)
DictSetItem(pairs, k, v) ==
    IF pairs = <<>> THEN <<Pair(k, v)>>
    ELSE IF KeyEq(Head(pairs).items[1], k)
         THEN <<Pair(Head(pairs).items[1], v)>> \o Tail(pairs)
         ELSE <<Head(pairs)>> \o DictSetItem(Tail(pairs), k, v)

\* s.add(x) on a set's items
SetAdd(items, x) ==
    IF \E i \in 1..Len(items) : KeyEq(items[i], x) THEN items ELSE Append(items, x)

Take(s, n) == SubSeq(s, 1, IF Len(s) < n THEN Len(s) ELSE n)

(***************************************************************************)
(* Delimiters and XTokenCustomization.                                     *)
(***************************************************************************)
Delimiters(open, close, itemsep, kvsep) ==
    [none |-> FALSE, open |-> open, close |-> close, itemsep |-> itemsep, kvsep |-> kvsep]

NoDelimiters == [none |-> TRUE, open |-> "", close |-> "", itemsep |-> "", kvsep |-> ""]

Separators(item, key) == [none |-> FALSE, item |-> item, key |-> key]
NoSeparators == [none |-> TRUE, item |-> "", key |-> ""]

\* indent is -1 for Python's None (compact mode)
IndentNone == -1

for_type(v, indent, separators) ==
    LET seps == IF ~separators.none THEN separators
                ELSE IF indent = IndentNone THEN Separators(", ", ": ")
                ELSE Separators(",", ": ")
    IN  IF v.t \in {"str", "bytes", "int", "float", "bool", "NoneType"} THEN NoDelimiters
        ELSE IF IsMapping(v) THEN Delimiters("{", "}", seps.item, seps.key)
        ELSE IF v.t = "tuple" THEN Delimiters("(", ")", seps.item, seps.key)
        ELSE IF IsSequence(v) THEN Delimiters("[", "]", seps.item, seps.key)
        ELSE IF v.t = "set" THEN Delimiters("{", "}", seps.item, seps.key)
        ELSE NoDelimiters

for_object(v, indent, separators) ==
    IF v = NoneV \/ v = MISSING THEN NoDelimiters ELSE for_type(v, indent, separators)

XTokenCustomization(delimiters, suppress, value, raw_string, raw_key_strings, source_type, continue_chain) ==
    [none |-> FALSE, delimiters |-> delimiters, suppress |-> suppress, value |-> value,
     raw_string |-> raw_string, raw_key_strings |-> raw_key_strings,
     source_type |-> source_type, continue_chain |-> continue_chain]

\* XTokenCustomization() with every argument at its default
DefaultCustomization ==
    XTokenCustomization(NoDelimiters, FALSE, MISSING, FALSE, FALSE, "", TRUE)

\* Python's None where an XTokenCustomization | None is expected
NoCustomization == [DefaultCustomization EXCEPT !.none = TRUE]

override(c) == c.value # MISSING

(***************************************************************************)
(* Customizer functions.  A customizer is a record [name, p, on, res]:     *)
(* the stock and built-in ones are told apart by name (p is the closed-    *)
(* over max_width / max_depth); a caller's customizer returns res for the  *)
(* values its guard `on` selects and None for the others.                  *)
(* A call yields [kind, s, c]: "none", "raise", "str" (s) or "cust" (c).   *)
(***************************************************************************)
ResNone == [kind |-> "none", s |-> "", c |-> NoCustomization]
ResRaise == [kind |-> "raise", s |-> "", c |-> NoCustomization]
ResStr(s) == [kind |-> "str", s |-> s, c |-> NoCustomization]
ResCust(c) == [kind |-> "cust", s |-> "", c |-> c]

Fn(name, p) == [name |-> name, p |-> p, on |-> "", res |-> ResNone]
UserFn(name, on, res) == [name |-> name, p |-> 0, on |-> on, res |-> res]

Ellipsis == "..."

_libpath_path_as_posix_customizer(value, depth) ==
    IF IsPath(value) THEN ResStr("'" \o value.a \o "'") ELSE ResNone

_max_container_depth_customizer(max_depth, value, depth) ==
    IF depth > max_depth
    THEN ResCust([DefaultCustomization EXCEPT !.value = StrV(Ellipsis), !.raw_string = TRUE])
    ELSE ResNone

\* the fields of a dataclass that hasattr() finds, as a dict's items
InitializedFields(fields) ==
    SelectSeq(fields, LAMBDA f : f.items[2] # MISSING)

_max_container_width_customizer(max_width, value, depth) ==
    IF IsStrOrBytes(value) THEN ResNone
    ELSE IF max_width = 0
            /\ (IsMapping(value) \/ IsSequence(value) \/ IsSet(value) \/ IsDataclass(value))
    THEN ResCust([DefaultCustomization EXCEPT
                    !.value = StrV(Ellipsis),
                    !.raw_string = TRUE,
                    !.delimiters =
                        IF IsDataclass(value)
                        THEN Delimiters(TypeName(value) \o "(", ")", ",", "=")
                        ELSE for_object(value, IndentNone, NoSeparators)])
    ELSE IF IsMapping(value) /\ Len(Items(value)) > max_width
    THEN ResCust([DefaultCustomization EXCEPT
                    !.value = DictV(DictSetItem(Take(Items(value), max_width),
                                                XRawString(Ellipsis), XRawString(Ellipsis)))])
    ELSE IF IsDataclass(value) /\ Len(Items(value)) > max_width
    THEN ResCust([DefaultCustomization EXCEPT
                    !.value = DictV(DictSetItem(InitializedFields(Take(Items(value), max_width)),
                                                XRawString(Ellipsis), XRawString(Ellipsis)))])
    ELSE IF IsSequence(value) /\ Len(Items(value)) > max_width
    THEN ResCust([DefaultCustomization EXCEPT
                    !.value = V(IF value.t = "list" THEN "list" ELSE "tuple", "",
                                Append(Take(Items(value), max_width), XRawString(Ellipsis)))])
    ELSE IF IsSet(value) /\ Len(Items(value)) > max_width
    THEN ResCust([DefaultCustomization EXCEPT
                    !.value = SetV(SetAdd(Take(Items(value), max_width), XRawString(Ellipsis)))])
    ELSE ResNone

_wrap_derived_class_instances_customizer(value, depth) ==
    IF IsBuiltinType(value) THEN ResNone
    ELSE ResCust([DefaultCustomization EXCEPT
                    !.delimiters = Delimiters(TypeName(value) \o "(", ")", ",", ":"),
                    !.value = value])

_customize_raw_string(value, depth) ==
    IF value.t = "XRawString"
    THEN ResCust([DefaultCustomization EXCEPT !.value = StrV(value.a), !.raw_string = TRUE])
    ELSE ResNone

_customize_exception(value, depth) ==
    IF IsException(value)
    THEN ResCust([DefaultCustomization EXCEPT
                    !.delimiters = Delimiters(TypeName(value) \o "(", ")", ",", ":"),
                    !.value = DictV(<<Pair(StrV("message"), StrV("msg")),
                                      Pair(StrV("args"), TupleV(value.items))>>)])
    ELSE ResNone

_customize_dataclass(value, depth) ==
    IF ~IsDataclass(value) THEN ResNone
    ELSE ResCust([DefaultCustomization EXCEPT
                    !.delimiters = Delimiters(TypeName(value) \o "(", ")", ",", "="),
                    !.value = DictV(InitializedFields(Items(value))),
                    !.raw_key_strings = TRUE,
                    !.source_type = TypeName(value)])

_customize_path(value, depth) ==
    IF IsPath(value) THEN ResStr("'" \o value.a \o "'") ELSE ResNone

\* the guard of a caller's customizer
On(on, value, depth) ==
    CASE on = "any" -> TRUE
      [] on = "int" -> value.t = "int"
      [] on = "str" -> value.t = "str"
      [] on = "none" -> value = NoneV
      [] on = "dataclass" -> IsDataclass(value)
      [] on = "pairA" -> value.t = "tuple" /\ Len(value.items) = 2
                          /\ value.items[1] = StrV("a")
      [] on = "container" -> IsMapping(value) \/ (IsSequence(value) /\ ~IsStrOrBytes(value))
                              \/ IsSet(value)
      [] on = "deep" -> depth > 0
      [] OTHER -> FALSE

\* customizer(value, depth)
\* _customize_dataclass(value, depth, strict=strict): strict raises
\* AttributeError on the first field that is not initialised
_customize_dataclass_strict(value, depth, strict) ==
    IF IsDataclass(value) /\ strict
          /\ \E i \in 1..Len(Items(value)) : Items(value)[i].items[2] = MISSING
    THEN ResRaise
    ELSE _customize_dataclass(value, depth)

Invoke(fn, value, depth) ==
    CASE fn.name = "_libpath_path_as_posix_customizer" ->
            _libpath_path_as_posix_customizer(value, depth)
      [] fn.name = "_max_container_depth_customizer" ->
            _max_container_depth_customizer(fn.p, value, depth)
      [] fn.name = "_max_container_width_customizer" ->
            _max_container_width_customizer(fn.p, value, depth)
      [] fn.name = "_wrap_derived_class_instances_customizer" ->
            _wrap_derived_class_instances_customizer(value, depth)
      [] fn.name = "_customize_raw_string" -> _customize_raw_string(value, depth)
      [] fn.name = "_customize_exception" -> _customize_exception(value, depth)
      [] fn.name = "_customize_dataclass" -> _customize_dataclass(value, depth)
      [] fn.name = "_customize_path" -> _customize_path(value, depth)
      [] OTHER -> IF On(fn.on, value, depth) THEN fn.res ELSE ResNone


(***************************************************************************)
(* CustomizerRegistry.                                                     *)
(***************************************************************************)
RemoveAt(s, i) == SubSeq(s, 1, i - 1) \o SubSeq(s, i + 1, Len(s))

IndexOf(s, x) == CHOOSE i \in 1..Len(s) : s[i] = x /\ \A j \in 1..(i - 1) : s[j] # x

Contains(s, x) == \E i \in 1..Len(s) : s[i] = x

\* list.insert(idx, x) for idx >= 0: an idx past the end appends
Insert(s, idx, x) ==
    LET k == IF idx > Len(s) THEN Len(s) ELSE idx
    IN  SubSeq(s, 1, k) \o <<x>> \o SubSeq(s, k + 1, Len(s))

\* an insert that leaves an entry that is already there
register_mutant(cs, func, idx) == Insert(cs, idx, func)

register(cs, func, idx) ==
    Insert(IF Contains(cs, func) THEN RemoveAt(cs, IndexOf(cs, func)) ELSE cs, idx, func)

reset(cs) ==
    register(register(register(register(<<>>,
        Fn("_customize_raw_string", 0), 0),
        Fn("_customize_exception", 0), 0),
        Fn("_customize_dataclass", 0), 0),
        Fn("_customize_path", 0), 0)

\* CustomizerRegistry(customizers=given): reset, then register(fn, idx) per enumerate
RECURSIVE RegisterEach(_, _, _)
RegisterEach(cs, given, idx) ==
    IF given = <<>> THEN cs
    ELSE RegisterEach(register(cs, Head(given), idx), Tail(given), idx + 1)

CustomizerRegistry(given) == RegisterEach(reset(<<>>), given, 0)

\* a pop() without the index removes the last customizer instead of the failing one
PopFailed_mutant(cs, i) == RemoveAt(cs, Len(cs))

\* self.customizers.pop(i), i counted from 0
PopFailed(cs, i) == RemoveAt(cs, i + 1)

\* the f-string of LOG.error in the except block formats the value with !r
LogErrorRaises(value) == ReprRaises(value)

\* a str result that is not marked raw
RawStringResult_mutant(s) ==
    [DefaultCustomization EXCEPT !.value = StrV(s), !.continue_chain = FALSE]

\* a str result: XTokenCustomization(value=result, raw_string=True, continue_chain=False)
RawStringResult(s) ==
    [DefaultCustomization EXCEPT !.value = StrV(s), !.raw_string = TRUE,
                                 !.continue_chain = FALSE]

\* a merge that also takes a later suppress = True
MergeResult_suppress(merged, result) ==
    [merged EXCEPT
        !.delimiters = IF ~result.delimiters.none THEN result.delimiters ELSE @,
        !.suppress = IF result.suppress THEN TRUE ELSE @,
        !.value = IF override(result) THEN result.value ELSE @,
        !.raw_key_strings = IF result.raw_key_strings THEN TRUE ELSE @,
        !.raw_string = IF result.raw_string THEN TRUE ELSE @,
        !.source_type = IF result.source_type # "" THEN result.source_type ELSE @,
        !.continue_chain = IF ~result.continue_chain THEN FALSE ELSE @]

\* a merge in which the first value override wins
MergeResult_mutant(merged, result) ==
    [merged EXCEPT
        !.delimiters = IF ~result.delimiters.none THEN result.delimiters ELSE @,
        !.value = IF override(result) /\ ~override(merged) THEN result.value ELSE @,
        !.raw_key_strings = IF result.raw_key_strings THEN TRUE ELSE @,
        !.raw_string = IF result.raw_string THEN TRUE ELSE @,
        !.source_type = IF result.source_type # "" THEN result.source_type ELSE @,
        !.continue_chain = IF ~result.continue_chain THEN FALSE ELSE @]

\* the merge of a further result into merged (suppress is not copied)
MergeResult(merged, result) ==
    [merged EXCEPT
        !.delimiters = IF ~result.delimiters.none THEN result.delimiters ELSE @,
        !.value = IF override(result) THEN result.value ELSE @,
        !.raw_key_strings = IF result.raw_key_strings THEN TRUE ELSE @,
        !.raw_string = IF result.raw_string THEN TRUE ELSE @,
        !.source_type = IF result.source_type # "" THEN result.source_type ELSE @,
        !.continue_chain = IF ~result.continue_chain THEN FALSE ELSE @]

Outcome(cs, result, invoked, raised) ==
    [customizers |-> cs, result |-> result, invoked |-> invoked, raised |-> raised]

\* the while loop of customize; i counts from 0 as in the source
\* customizer(value, depth, **kwargs); kwargs is "" for none, else strict=true
\* or strict=false: a customizer of two parameters raises TypeError for it
InvokeKw(fn, value, depth, kwargs) ==
    IF kwargs = "" THEN Invoke(fn, value, depth)
    ELSE IF fn.name = "_customize_dataclass"
    THEN _customize_dataclass_strict(value, depth, kwargs = "strict=true")
    ELSE ResRaise

RECURSIVE CustomizeLoop(_, _, _, _, _, _, _)
CustomizeLoop(cs, i, merged, invoked, value, depth, kwargs) ==
    IF i >= Len(cs) THEN Outcome(cs, merged, invoked, FALSE)
    ELSE
      (CHOOSE r_ \in {
          (CHOOSE r_ \in {
            IF result.kind = "raise"
            THEN (CHOOSE r_ \in {
                     IF LogErrorRaises(value)
                     THEN Outcome(popped, NoCustomization, inv, TRUE)
                     ELSE CustomizeLoop(popped, i, merged, inv, value, depth, kwargs)
                   : popped \in {PopFailed(cs, i)}} : TRUE)
            ELSE IF result.kind = "none"
            THEN CustomizeLoop(cs, i + 1, merged, inv, value, depth, kwargs)
            ELSE IF result.kind = "str"
            THEN Outcome(cs, RawStringResult(result.s), inv, FALSE)
            ELSE
              (CHOOSE r_ \in {
                  IF ~result.c.continue_chain
                  THEN Outcome(cs, m, inv, FALSE)
                  ELSE CustomizeLoop(cs, i + 1, m, inv, value, depth, kwargs)
                : m \in {IF merged.none THEN result.c ELSE MergeResult(merged, result.c)}} : TRUE)
          : inv \in {Append(invoked, cs[i + 1])}} : TRUE)
        : result \in {InvokeKw(cs[i + 1], value, depth, kwargs)}} : TRUE)

customize(cs, value, depth) == CustomizeLoop(cs, 0, NoCustomization, <<>>, value, depth, "")

\* customize(value, depth, strict=...)
customize_kwargs(cs, value, depth, kwargs) ==
    CustomizeLoop(cs, 0, NoCustomization, <<>>, value, depth, kwargs)

(***************************************************************************)
(* PeekableIterator (base/types.py).  A call yields [pi, val, exc]: the     *)
(* iterator after the call, the value returned, the exception raised.       *)
(***************************************************************************)
PeekableIterator(items) == [it |-> items, has_cache |-> FALSE, cache |-> NoneV]

IterResult(pi, val, exc) == [pi |-> pi, val |-> val, exc |-> exc]

PeekableIterator_next(pi) ==
    IF pi.has_cache
    THEN LET p2 == [pi EXCEPT !.has_cache = FALSE]
         IN  IF pi.cache = NoneV THEN IterResult(p2, MISSING, "AssertionError")
             ELSE IterResult(p2, pi.cache, "")
    ELSE IF pi.it = <<>> THEN IterResult(pi, MISSING, "StopIteration")
    ELSE IterResult([pi EXCEPT !.it = Tail(@)], Head(pi.it), "")

PeekableIterator_peek(pi) ==
    IF ~pi.has_cache /\ pi.it = <<>> THEN IterResult(pi, MISSING, "StopIteration")
    ELSE LET p2 == IF pi.has_cache THEN pi
                   ELSE [it |-> Tail(pi.it), has_cache |-> TRUE, cache |-> Head(pi.it)]
         IN  IF p2.cache = NoneV THEN IterResult(p2, MISSING, "AssertionError")
             ELSE IterResult(p2, p2.cache, "")

PeekableIterator_is_empty(pi) ==
    LET r == PeekableIterator_peek(pi)
    IN  IF r.exc = "StopIteration" THEN [pi |-> r.pi, val |-> TRUE, exc |-> ""]
        ELSE [pi |-> r.pi, val |-> FALSE, exc |-> r.exc]

(***************************************************************************)
(* Tokens (model.py).  Every Token.VALUE the traversal builds is kept in    *)
(* the arena `nodes` under its id; a token's parent is the id of a VALUE    *)
(* token (0 for None).  The emitted stream is `tokens`.                     *)
(***************************************************************************)
Token(kind, value_, is_kvv, parent, customization, id) ==
    [kind |-> kind, value_ |-> value_, is_kvv |-> is_kvv, parent |-> parent,
     customization |-> customization, id |-> id]

\* Kind.all()
KindAll == {"OPEN", "VALUE", "KV_SEP", "ITEM_SEP", "CLOSE"}

TokenInitRaises_mutant(kind, value_, parent) ==
    kind \notin KindAll \/ (kind # "VALUE" /\ value_ # MISSING)

\* Token.__init__ rejects an unknown kind and a structural token that carries
\* a value or has no parent
TokenInitRaises(kind, value_, parent) ==
    kind \notin KindAll \/ (kind # "VALUE" /\ (value_ # MISSING \/ parent = 0))

TokenOPEN(parent, is_kvv) == Token("OPEN", MISSING, is_kvv, parent, NoCustomization, 0)
TokenCLOSE(parent, is_kvv) == Token("CLOSE", MISSING, is_kvv, parent, NoCustomization, 0)
TokenITEM_SEP(parent) == Token("ITEM_SEP", MISSING, FALSE, parent, NoCustomization, 0)
TokenKV_SEP(parent) == Token("KV_SEP", MISSING, FALSE, parent, NoCustomization, 0)

\* Token.value: the override if the customization has one, else value_
TokenValue(token) ==
    IF ~token.customization.none /\ override(token.customization)
    THEN token.customization.value
    ELSE token.value_

is_mapping(token) == IsMapping(TokenValue(token))
is_sequence(token) == IsSequence(TokenValue(token)) /\ ~IsStrOrBytes(TokenValue(token))
is_set(token) == IsSet(TokenValue(token))
is_container(token) == is_mapping(token) \/ is_sequence(token) \/ is_set(token)

\* Token.depth of the VALUE token with the given id
RECURSIVE NodeDepth(_, _)
NodeDepth(nodes, id) ==
    IF nodes[id].parent = 0 THEN 0 ELSE NodeDepth(nodes, nodes[id].parent) + 1

(***************************************************************************)
(* TokenStream (token_stream.py).  The traversal threads a record st:       *)
(* the tokens yielded so far, the arena, the private registry's list and    *)
(* the exception that ended the traversal ("" while it runs).               *)
(***************************************************************************)
StreamState(cs) ==
    [tokens |-> <<>>, nodes |-> <<>>, customizers |-> cs, err |-> "", warned |-> <<>>]

Raise(st, exc) == IF st.err # "" THEN st ELSE [st EXCEPT !.err = exc]

\* yield of a freshly constructed token: Token.__init__ may reject it
Yield(st, token) ==
    IF st.err # "" THEN st
    ELSE IF TokenInitRaises(token.kind, token.value_, token.parent) THEN Raise(st, "ValueError")
    ELSE [st EXCEPT !.tokens = Append(@, token)]

\* a variant that drops is_kvv
NewValue_mutant(st, value, parent, customization, is_kvv) ==
    [st EXCEPT !.nodes =
        Append(@, Token("VALUE", value, FALSE, parent, customization, Len(st.nodes) + 1))]

\* Token.VALUE(value, parent, customization, is_kvv), entered into the arena
NewValue(st, value, parent, customization, is_kvv) ==
    [st EXCEPT !.nodes =
        Append(@, Token("VALUE", value, is_kvv, parent, customization, Len(st.nodes) + 1))]

LastNode(st) == st.nodes[Len(st.nodes)]

\* self._private_customizers.customize(value, depth=depth)
StreamCustomize(st, value, depth) ==
    (CHOOSE r_ \in {
        [st |-> [st EXCEPT !.customizers = out.customizers,
                          !.err = IF out.raised THEN "ReprError" ELSE @],
        c |-> out.result]
      : out \in {customize(st.customizers, value, depth)}} : TRUE)

\* a variant that never reports suppression
_is_value_suppressed_mutant(st, value, parent) ==
    [st |-> StreamCustomize(st, value, NodeDepth(st.nodes, parent) + 1).st, val |-> FALSE]

_is_value_suppressed(st, value, parent) ==
    (CHOOSE r_ \in {
        [st |-> r.st, val |-> ~r.c.none /\ r.c.suppress]
      : r \in {StreamCustomize(st, value, NodeDepth(st.nodes, parent) + 1)}} : TRUE)

_is_pair_suppressed(st, pair, parent) ==
    (CHOOSE r_ \in {
        [st |-> r.st, val |-> ~r.c.none /\ r.c.suppress]
      : r \in {StreamCustomize(st, pair, NodeDepth(st.nodes, parent) + 1)}} : TRUE)

RECURSIVE emit_container_items(_, _)
RECURSIVE _emit_mapping_items(_, _, _, _)
RECURSIVE _emit_sequence_items(_, _, _, _)
RECURSIVE _emit_value_or_container(_, _, _)
RECURSIVE emit_tokens_for_mapping_pair(_, _, _)

\* a variant that leaves a container open
EmitToken_mutant(st, token, is_kvv) ==
    IF is_container(token)
    THEN emit_container_items(Yield(st, TokenOPEN(token.id, is_kvv)), token.id)
    ELSE Yield(st, token)

\* OPEN, the children, CLOSE for a container token; the token itself otherwise
EmitToken(st, token, is_kvv) ==
    IF is_container(token)
    THEN (CHOOSE r_ \in {
             (CHOOSE r_ \in {
               Yield(emitted, TokenCLOSE(token.id, FALSE))
             : emitted \in {emit_container_items(opened, token.id)}} : TRUE)
           : opened \in {Yield(st, TokenOPEN(token.id, is_kvv))}} : TRUE)
    ELSE Yield(st, token)

emit_container_items(st, container) ==
    IF st.err # "" THEN st
    ELSE IF NodeDepth(st.nodes, container) >= RecursionLimit THEN Raise(st, "RecursionError")
    ELSE (CHOOSE r_ \in {
             IF is_mapping(token)
             THEN _emit_mapping_items(st, container,
                                      PeekableIterator(Items(TokenValue(token))), FALSE)
             ELSE IF is_sequence(token) \/ is_set(token)
             THEN _emit_sequence_items(st, container,
                                       PeekableIterator(Items(TokenValue(token))), FALSE)
             ELSE Raise(st, "TypeError")
           : token \in {st.nodes[container]}} : TRUE)

_emit_mapping_items(st, container, items, emitted_any) ==
    IF st.err # "" THEN st
    ELSE
      (CHOOSE r_ \in {
          IF e.exc # "" THEN Raise(st, e.exc)
          ELSE IF e.val THEN st
          ELSE
            (CHOOSE r_ \in {
                (CHOOSE r_ \in {
                  (CHOOSE r_ \in {
                    IF sup.st.err # "" THEN sup.st
                    ELSE IF sup.val
                    THEN _emit_mapping_items(sup.st, container, nx.pi, emitted_any)
                    ELSE
                      (CHOOSE r_ \in {
                          (CHOOSE r_ \in {
                            _emit_mapping_items(emitted, container, nx.pi, TRUE)
                          : emitted \in {emit_tokens_for_mapping_pair(separated, container, pk.val)}} : TRUE)
                        : separated \in {IF emitted_any THEN Yield(sup.st, TokenITEM_SEP(container)) ELSE sup.st}} : TRUE)
                  : nx \in {PeekableIterator_next(pk.pi)}} : TRUE)
                : sup \in {_is_pair_suppressed(st, pk.val, container)}} : TRUE)
              : pk \in {PeekableIterator_peek(e.pi)}} : TRUE)
        : e \in {PeekableIterator_is_empty(items)}} : TRUE)

_emit_sequence_items(st, container, items, emitted_any) ==
    IF st.err # "" THEN st
    ELSE
      (CHOOSE r_ \in {
          IF e.exc # "" THEN Raise(st, e.exc)
          ELSE IF e.val THEN st
          ELSE
            (CHOOSE r_ \in {
                (CHOOSE r_ \in {
                  (CHOOSE r_ \in {
                    IF sup.st.err # "" THEN sup.st
                    ELSE IF sup.val
                    THEN _emit_sequence_items(sup.st, container, nx.pi, emitted_any)
                    ELSE
                      (CHOOSE r_ \in {
                          (CHOOSE r_ \in {
                            _emit_sequence_items(emitted, container, nx.pi, TRUE)
                          : emitted \in {_emit_value_or_container(separated, pk.val, container)}} : TRUE)
                        : separated \in {IF emitted_any THEN Yield(sup.st, TokenITEM_SEP(container)) ELSE sup.st}} : TRUE)
                  : nx \in {PeekableIterator_next(pk.pi)}} : TRUE)
                : sup \in {_is_value_suppressed(st, pk.val, container)}} : TRUE)
              : pk \in {PeekableIterator_peek(e.pi)}} : TRUE)
        : e \in {PeekableIterator_is_empty(items)}} : TRUE)

_emit_value_or_container(st, value, parent) ==
    IF st.err # "" THEN st
    ELSE
      (CHOOSE r_ \in {
          IF r.st.err # "" THEN r.st
          ELSE (CHOOSE r_ \in {
                   EmitToken(st1, LastNode(st1), FALSE)
                 : st1 \in {NewValue(r.st, value, parent, r.c, FALSE)}} : TRUE)
        : r \in {StreamCustomize(st, value, NodeDepth(st.nodes, parent) + 1)}} : TRUE)

\* warnings.warn(f"Mapping key/value tokens cannot be suppressed: {value!r} ..."):
\* the message is formatted with repr(value) before the warning is issued
WarnSuppressed(st, customization, value) ==
    IF customization.none \/ ~customization.suppress THEN st
    ELSE IF ReprRaises(value) THEN Raise(st, "ReprError")
    ELSE [st EXCEPT !.warned = Append(@, value)]

emit_tokens_for_mapping_pair(st, container, item) ==
    IF st.err # "" THEN st
    ELSE
      (CHOOSE r_ \in {
          IF k.st.err # "" THEN k.st
          ELSE
            (CHOOSE r_ \in {
                (CHOOSE r_ \in {
                  (CHOOSE r_ \in {
                    IF st2.err # "" THEN st2
                    ELSE
                      (CHOOSE r_ \in {
                          IF v.st.err # "" THEN v.st
                          ELSE (CHOOSE r_ \in {
                                   IF w.err # "" THEN w
                                   ELSE (CHOOSE r_ \in {
                                            EmitToken(st3, LastNode(st3), TRUE)
                                          : st3 \in {NewValue(w, item.items[2], container, v.c, TRUE)}} : TRUE)
                                 : w \in {WarnSuppressed(v.st, v.c, item.items[2])}} : TRUE)
                        : v \in {StreamCustomize(st2, item.items[2], NodeDepth(st2.nodes, container) + 1)}} : TRUE)
                  : st2 \in {Yield(keyed, TokenKV_SEP(container))}} : TRUE)
                : keyed \in {IF st1.err # "" THEN st1
                             ELSE EmitToken(st1, LastNode(st1), FALSE)}} : TRUE)
              : st1 \in {WarnSuppressed(NewValue(k.st, item.items[1], container, k.c, FALSE),
                                        k.c, item.items[1])}} : TRUE)
        : k \in {StreamCustomize(st, item.items[1], NodeDepth(st.nodes, container) + 1)}} : TRUE)

\* the customizers in the supplied order
RegisterAtFront_mutant(cs, given) == given \o cs

\* TokenStream(value, customizers=given): a fresh registry, each given
\* customizer registered at index 0
RECURSIVE RegisterAtFront(_, _)
RegisterAtFront(cs, given) ==
    IF given = <<>> THEN cs ELSE RegisterAtFront(register(cs, Head(given), 0), Tail(given))

TokenStream(given) == RegisterAtFront(CustomizerRegistry(<<>>), given)

\* TokenStream.__iter__, run to its end
TokenStream_iter(value, cs) ==
    (CHOOSE r_ \in {
        IF r.st.err # "" THEN r.st
        ELSE
          (CHOOSE r_ \in {
              (CHOOSE r_ \in {
                IF ~r.c.none /\ r.c.suppress THEN st1
                ELSE IF ~r.c.none /\ r.c.raw_string THEN Yield(st1, root)
                ELSE IF IsMapping(TokenValue(root)) \/ IsSequence(TokenValue(root))
                        \/ IsSet(TokenValue(root))
                THEN (CHOOSE r_ \in {
                         (CHOOSE r_ \in {
                           Yield(emitted, TokenCLOSE(root.id, FALSE))
                         : emitted \in {emit_container_items(opened, root.id)}} : TRUE)
                       : opened \in {Yield(st1, TokenOPEN(root.id, FALSE))}} : TRUE)
                ELSE Yield(st1, root)
              : root \in {LastNode(st1)}} : TRUE)
            : st1 \in {NewValue(r.st, value, 0, r.c, FALSE)}} : TRUE)
      : r \in {StreamCustomize(StreamState(cs), value, 0)}} : TRUE)

(***************************************************************************)
(* Text.  A rendered text is a sequence of pieces whose concatenation is    *)
(* the Python string; an atom's rendering and a line break are each one     *)
(* piece.                                                                   *)
(***************************************************************************)
RECURSIVE Spaces(_)
Spaces(n) == IF n <= 0 THEN "" ELSE " " \o Spaces(n - 1)

Piece(str) == IF str = "" THEN <<>> ELSE <<str>>

RECURSIVE Join(_, _)
Join(texts, sep) ==
    IF texts = <<>> THEN <<>>
    ELSE IF Len(texts) = 1 THEN texts[1]
    ELSE texts[1] \o <<sep>> \o Join(Tail(texts), sep)

\* bool(value)
Truthy(v) ==
    CASE v.t \in {"NoneType", "MISSING"} -> FALSE
      [] v.t = "bool" -> v.a = "True"
      [] v.t \in {"int", "float"} -> v.a \notin {"0", "0.0"}
      [] v.t \in {"str", "bytes", "XRawString"} -> v.a # ""
      [] v.t \in {"list", "tuple", "set", "frozenset", "dict"} -> Items(v) # <<>>
      [] OTHER -> TRUE

\* repr(value) of a value whose repr does not raise
RECURSIVE PyRepr(_)
PyRepr(v) ==
    CASE v = SelfList -> <<"[[...], 1]">>
      [] v = SelfRecord -> <<"Node(me=...)">>
      [] v.t = "NoneType" -> <<"None">>
      [] v.t = "str" -> <<"'" \o v.a \o "'">>
      [] v.t = "XRawString" -> <<"XRawString('" \o v.a \o "')">>
      [] v.t = "bytes" -> <<"b'" \o v.a \o "'">>
      [] v.t = "list" ->
            <<"[">> \o Join([i \in 1..Len(v.items) |-> PyRepr(v.items[i])], ", ") \o <<"]">>
      [] v.t = "tuple" ->
            <<"(">> \o Join([i \in 1..Len(v.items) |-> PyRepr(v.items[i])], ", ")
                   \o (IF Len(v.items) = 1 THEN <<",">> ELSE <<>>) \o <<")">>
      [] v.t \in {"set", "frozenset"} ->
            IF v.items = <<>> THEN <<v.t \o "()">>
            ELSE <<"{">> \o Join([i \in 1..Len(v.items) |-> PyRepr(v.items[i])], ", ")
                         \o <<"}">>
      [] v.t = "dict" ->
            <<"{">> \o Join([i \in 1..Len(v.items) |->
                               PyRepr(v.items[i].items[1]) \o <<": ">>
                                   \o PyRepr(v.items[i].items[2])], ", ") \o <<"}">>
      [] v.t = "dataclass" /\ v.a \in OwnReprTypes -> <<v.a>>
      [] v.t = "dataclass" /\ v.a \notin OwnReprTypes ->
            <<v.a \o "(">> \o Join([i \in 1..Len(v.items) |->
                                      <<v.items[i].items[1].a, "=">>
                                          \o PyRepr(v.items[i].items[2])], ", ") \o <<")">>
      [] v.t = "object" -> <<"<" \o v.a \o ">">>
      [] OTHER -> <<v.a>>

\* str(value)
PyStr(v) == IF v.t \in {"str", "XRawString"} THEN Piece(v.a) ELSE PyRepr(v)

(***************************************************************************)
(* TokenFormatter (view.py).  A formatting call yields [chunk, exc].        *)
(***************************************************************************)
Literals(none, true, false) == [none |-> none, true |-> true, false |-> false]

TokenFormatter(indent, separators, literals, escape_unicode) ==
    [indent |-> indent, separators |-> separators, literals |-> literals,
     escape_unicode |-> escape_unicode]

Chunk(pieces) == [chunk |-> pieces, exc |-> ""]
ChunkError(exc) == [chunk |-> <<>>, exc |-> exc]

\* Token.delimiters for the VALUE token with the given id: its own, or the
\* nearest ancestor's; none found is the AssertionError of model.py
RECURSIVE NodeDelimiters(_, _, _, _)
NodeDelimiters(nodes, id, indent, separators) ==
    LET token == nodes[id]
        own == IF ~token.customization.none /\ ~token.customization.delimiters.none
               THEN token.customization.delimiters
               ELSE for_object(TokenValue(token), indent, separators)
    IN  IF ~own.none THEN own
        ELSE IF token.parent = 0 THEN NoDelimiters
        ELSE NodeDelimiters(nodes, token.parent, indent, separators)

TokenDelimiters(nodes, token, indent, separators) ==
    NodeDelimiters(nodes, IF token.kind = "VALUE" THEN token.id ELSE token.parent,
                   indent, separators)

get_indentation(f, nodes, token) ==
    IF f.indent > 0 /\ ~token.is_kvv
    THEN CASE token.kind = "VALUE" -> Spaces(NodeDepth(nodes, token.id) * f.indent)
           [] token.kind \in {"OPEN", "CLOSE"} ->
                 Spaces(NodeDepth(nodes, token.parent) * f.indent)
           [] OTHER -> ""
    ELSE ""

\* json.dumps of a str; ensure_ascii is left at its default, so a non-ASCII
\* character leaves as its \uXXXX escape
AsciiEscapes == [a \in {"é"} |-> "\\u00e9"]

JsonString(a) == "\"" \o (IF a \in DOMAIN AsciiEscapes THEN AsciiEscapes[a] ELSE a) \o "\""

stringify_atom(f, atom) ==
    CASE atom.t = "NoneType" -> f.literals.none
      [] atom.t = "bool" -> IF atom.a = "True" THEN f.literals.true ELSE f.literals.false
      [] atom.t = "MISSING" -> "MISSING"
      [] atom.t = "str" -> JsonString(atom.a)
      [] atom.t \in {"int", "float"} -> atom.a
      [] atom.t \in {"bytes", "XRawString"} -> JsonString(atom.a)
      [] OTHER -> JsonString(TypeName(atom) \o "<" \o atom.a \o ">")

_token_format_open_mutant(f, nodes, token) ==
    LET d == TokenDelimiters(nodes, token, f.indent, f.separators)
    IN  IF d.none THEN ChunkError("AssertionError")
        ELSE Chunk(Piece(get_indentation(f, nodes, token) \o d.open)
                   \o (IF f.indent # IndentNone THEN <<"\n">> ELSE <<>>))

_token_format_open(f, nodes, token) ==
    LET d == TokenDelimiters(nodes, token, f.indent, f.separators)
    IN  IF d.none THEN ChunkError("AssertionError")
        ELSE Chunk(Piece(get_indentation(f, nodes, token) \o d.open)
                   \o (IF f.indent # IndentNone /\ Truthy(TokenValue(nodes[token.parent]))
                       THEN <<"\n">> ELSE <<>>))

_token_format_close(f, nodes, token) ==
    LET d == TokenDelimiters(nodes, token, f.indent, f.separators)
    IN  IF d.none THEN ChunkError("AssertionError")
        ELSE Chunk((IF f.indent # IndentNone /\ Truthy(TokenValue(nodes[token.parent]))
                    THEN <<"\n">> ELSE <<>>)
                   \o Piece((IF f.indent # IndentNone
                                /\ Truthy(TokenValue(nodes[token.parent]))
                             THEN get_indentation(f, nodes, token) ELSE "") \o d.close))

_token_format_item_sep(f, nodes, token) ==
    LET d == TokenDelimiters(nodes, token, f.indent, f.separators)
    IN  IF d.none THEN ChunkError("AssertionError")
        ELSE IF f.indent = 0 THEN Chunk(Piece(d.itemsep \o " "))
        ELSE IF f.indent # IndentNone THEN Chunk(Piece(d.itemsep) \o <<"\n">>)
        ELSE Chunk(Piece(d.itemsep))

_token_format_kv_sep(f, nodes, token) ==
    LET d == TokenDelimiters(nodes, token, f.indent, f.separators)
    IN  IF d.none THEN ChunkError("AssertionError") ELSE Chunk(Piece(d.kvsep))

_format_value(f, nodes, token) ==
    LET raw == ~token.customization.none /\ token.customization.raw_string
    IN  IF raw /\ ReprRaises(TokenValue(token)) THEN ChunkError("ReprError")
        ELSE Chunk((IF ~is_container(token) THEN Piece(get_indentation(f, nodes, token))
                    ELSE <<>>)
                   \o (IF raw THEN PyStr(TokenValue(token))
                       ELSE <<stringify_atom(f, TokenValue(token))>>))

token_format(f, nodes, token) ==
    CASE token.kind = "OPEN" -> _token_format_open(f, nodes, token)
      [] token.kind = "CLOSE" -> _token_format_close(f, nodes, token)
      [] token.kind = "ITEM_SEP" -> _token_format_item_sep(f, nodes, token)
      [] token.kind = "KV_SEP" -> _token_format_kv_sep(f, nodes, token)
      [] token.kind = "VALUE" -> _format_value(f, nodes, token)
      [] OTHER -> ChunkError("ValueError")

(***************************************************************************)
(* The top-level API (xdumps_api.py).                                       *)
(***************************************************************************)
\* the factories of the CUSTOMIZER namespace: a customizer, or none when disabled
libpath_path_as_posix == <<Fn("_libpath_path_as_posix_customizer", 0)>>

max_container_width(max_width) ==
    IF max_width < 0 THEN <<>> ELSE <<Fn("_max_container_width_customizer", max_width)>>

max_container_depth(max_depth) ==
    IF max_depth < 0 THEN <<>> ELSE <<Fn("_max_container_depth_customizer", max_depth)>>

wrap_derived_class_instances == <<Fn("_wrap_derived_class_instances_customizer", 0)>>

\* _chunks of the tokens from the i-th on; the first exception of a
\* token_format call ends it
RECURSIVE FormatFrom(_, _, _, _, _)
FormatFrom(f, nodes, tokens, i, chunks) ==
    IF i > Len(tokens) THEN [chunks |-> chunks, exc |-> "", consumed |-> Len(tokens)]
    ELSE (CHOOSE r_ \in {
             IF r.exc # "" THEN [chunks |-> chunks, exc |-> r.exc, consumed |-> i]
             ELSE (CHOOSE r_ \in {
                      FormatFrom(f, nodes, tokens, i + 1, appended)
                    : appended \in {Append(chunks, r.chunk)}} : TRUE)
           : r \in {token_format(f, nodes, tokens[i])}} : TRUE)

\* "".join(_chunks)
RECURSIVE JoinChunks(_)
JoinChunks(chunks) == IF chunks = <<>> THEN <<>> ELSE Head(chunks) \o JoinChunks(Tail(chunks))

\* the pad before the text only
ShiftLines_mutant(text, pad, at_line_start) ==
    IF text = <<>> THEN <<>> ELSE (IF at_line_start THEN <<pad>> ELSE <<>>) \o text

\* " " * rshift before every line of the text
RECURSIVE ShiftLines(_, _, _)
ShiftLines(text, pad, at_line_start) ==
    IF text = <<>> THEN <<>>
    ELSE (IF at_line_start THEN <<pad>> ELSE <<>>) \o <<Head(text)>>
         \o ShiftLines(Tail(text), pad, Head(text) = "\n")

\* xdumps(value, ..., escape_unicode=...): [tokens, nodes, customizers, err, chunks, text]
xdumps_kw(value, indent, separators, literals, rshift, max_width, max_depth, given, string_bypass, escape_unicode) ==
    IF string_bypass /\ value.t \in {"str", "XRawString"}
    THEN [tokens |-> <<>>, nodes |-> <<>>, customizers |-> <<>>, err |-> "", chunks |-> <<>>,
          text |-> IF rshift > 0 THEN ShiftLines(Piece(value.a), Spaces(rshift), TRUE)
                   ELSE Piece(value.a)]
    ELSE
      (CHOOSE r_ \in {
          (CHOOSE r_ \in {
            (CHOOSE r_ \in {
              (CHOOSE r_ \in {
                [tokens |-> SubSeq(st.tokens, 1, fmt.consumed), nodes |-> st.nodes,
                customizers |-> st.customizers, err |-> err, chunks |-> fmt.chunks,
                text |-> IF err # "" THEN <<>>
                         ELSE IF rshift > 0
                         THEN ShiftLines(JoinChunks(fmt.chunks), Spaces(rshift), TRUE)
                         ELSE JoinChunks(fmt.chunks)]
              : err \in {IF fmt.exc # "" THEN fmt.exc ELSE st.err}} : TRUE)
            : fmt \in {FormatFrom(TokenFormatter(indent, separators, literals, escape_unicode), st.nodes, st.tokens, 1, <<>>)}} : TRUE)
          : st \in {TokenStream_iter(value, TokenStream(_customizers))}} : TRUE)
        : _customizers \in {given \o libpath_path_as_posix \o max_container_width(max_width) \o max_container_depth(max_depth) \o wrap_derived_class_instances}} : TRUE)

\* xdumps(value, ...) with escape_unicode left at its default
xdumps(value, indent, separators, literals, rshift, max_width, max_depth, given, string_bypass) ==
    xdumps_kw(value, indent, separators, literals, rshift, max_width, max_depth, given,
              string_bypass, FALSE)

(***************************************************************************)
(* The registry driven directly: construction, register, reset, customize. *)
(***************************************************************************)
uRaise == UserFn("uRaise", "any", ResRaise)
uRaiseInt == UserFn("uRaiseInt", "int", ResRaise)
uStr == UserFn("uStr", "int", ResStr("S"))
uDelims ==
    UserFn("uDelims", "any",
           ResCust([DefaultCustomization EXCEPT
                      !.delimiters = Delimiters("<", ">", ";", "="), !.suppress = TRUE]))
uValue ==
    UserFn("uValue", "any",
           ResCust([DefaultCustomization EXCEPT
                      !.value = StrV("B"), !.raw_string = TRUE, !.source_type = "T"]))
uStop ==
    UserFn("uStop", "any",
           ResCust([DefaultCustomization EXCEPT
                      !.delimiters = Delimiters("(", ")", ",", ":"),
                      !.raw_key_strings = TRUE, !.continue_chain = FALSE]))

UserCustomizers == {uRaise, uRaiseInt, uStr, uDelims, uValue, uStop}

AlwaysRaises(fn) == fn.on = "any" /\ fn.res = ResRaise
AlwaysRaisers == {fn \in UserCustomizers : AlwaysRaises(fn)}

PartialD == DataclassV("D", <<Pair(StrV("x"), IntV("1")), Pair(StrV("y"), MISSING)>>)
FullD == DataclassV("D", <<Pair(StrV("x"), IntV("1")), Pair(StrV("y"), IntV("2"))>>)

RegValues ==
    {NoneV, IntV("1"), StrV("a"), XRawString(Ellipsis), ListV(<<IntV("1")>>), PartialD, FullD}

NoCall(op) ==
    [op |-> op, value |-> MISSING, depth |-> 0, before |-> <<>>, invoked |-> <<>>,
     result |-> NoCustomization, raised |-> FALSE]

NoStream == [op |-> "none"]

\* how often fn occurs in a list of invoked customizers
RECURSIVE Count(_, _)
Count(s, x) ==
    IF s = <<>> THEN 0 ELSE (IF Head(s) = x THEN 1 ELSE 0) + Count(Tail(s), x)

InitLists ==
    {<<>>} \cup {<<f>> : f \in UserCustomizers}
           \cup {<<f, g>> : f \in {uRaise, uDelims}, g \in {uRaise, uDelims, uStr}}

\* CustomizerRegistry(customizers=given)
InitRegistry ==
    /\ \E given \in InitLists :
          /\ customizers = CustomizerRegistry(given)
          /\ call = [op |-> "init", given |-> given]
    /\ strikes = [f \in AlwaysRaisers |-> 0]
    /\ stream = NoStream

Register(func, idx) ==
    /\ Len(customizers) < MaxCustomizers
    /\ customizers' = register(customizers, func, idx)
    /\ call' = [op |-> "register", func |-> func, idx |-> idx, before |-> customizers]
    /\ strikes' = [f \in AlwaysRaisers |-> IF f = func THEN 0 ELSE strikes[f]]
    /\ UNCHANGED stream

Reset ==
    /\ customizers' = reset(customizers)
    /\ call' = NoCall("reset")
    /\ UNCHANGED <<strikes, stream>>

Customize(value, depth) ==
    \E out \in {customize(customizers, value, depth)} :
        /\ customizers' = out.customizers
        /\ call' = [op |-> "customize", value |-> value, depth |-> depth,
                    before |-> customizers, invoked |-> out.invoked,
                    result |-> out.result, raised |-> out.raised]
        /\ strikes' = [f \in AlwaysRaisers |-> strikes[f] + Count(out.invoked, f)]
        /\ UNCHANGED stream

NextRegistry ==
    \/ \E func \in UserCustomizers, idx \in 0..MaxIdx : Register(func, idx)
    \/ Reset
    \/ \E value \in RegValues, depth \in 0..MaxDepthArg : Customize(value, depth)

SpecRegistry == InitRegistry /\ [][NextRegistry]_vars

(***************************************************************************)
(* The token stream driven directly: TokenStream(value, customizers) is     *)
(* built from arguments drawn in the initial state and iterated to its end. *)
(***************************************************************************)
sSupInt == UserFn("sSupInt", "int", ResCust([DefaultCustomization EXCEPT !.suppress = TRUE]))
sSupPairA ==
    UserFn("sSupPairA", "pairA", ResCust([DefaultCustomization EXCEPT !.suppress = TRUE]))
sStrToList ==
    UserFn("sStrToList", "str",
           ResCust([DefaultCustomization EXCEPT !.value = ListV(<<IntV("3")>>)]))

sSupRecord ==
    UserFn("sSupRecord", "dataclass", ResCust([DefaultCustomization EXCEPT !.suppress = TRUE]))

sPlainInt == UserFn("sPlainInt", "int", ResCust(DefaultCustomization))

StreamLists ==
    {<<>>, <<sSupInt>>, <<sSupPairA>>, <<uRaiseInt>>, <<sStrToList>>, <<sSupInt, sSupPairA>>,
     <<sSupRecord>>, <<sSupInt, sPlainInt>>}

RecordMappings ==
    {DictV(<<Pair(StrV("a"), FullD)>>), DictV(<<Pair(StrV("a"), PartialD)>>),
     DictV(<<Pair(StrV("b"), IntV("1")), Pair(StrV("a"), FullD)>>)}

SeqsOver(S) == UNION {[1..n -> S] : n \in 0..MaxLen}

Distinct(s) == \A i, j \in 1..Len(s) : i # j => s[i] # s[j]

\* json-like scalars plus the values with no container shape
Scalars ==
    {NoneV, BoolV("True"), IntV("1"), FloatV("1.5"), StrV("a"), BytesV("b"), ObjectV("o")}

Inner ==
    {NoneV, IntV("1"), StrV("a"), ListV(<<>>), ListV(<<IntV("2")>>),
     DictV(<<Pair(StrV("a"), IntV("2"))>>)}

Hashables == {NoneV, IntV("1"), StrV("a"), TupleV(<<IntV("2")>>)}

MappingKeys == {StrV("a"), StrV(Ellipsis), IntV("1"), TupleV(<<IntV("2")>>)}
MappingValues == {NoneV, IntV("1"), ListV(<<IntV("2")>>)}

Mappings ==
    {DictV(ps) : ps \in {qs \in SeqsOver({Pair(k, v) : k \in MappingKeys, v \in MappingValues}) :
                            \A i, j \in 1..Len(qs) : i # j => qs[i].items[1] # qs[j].items[1]}}

Sequences == {ListV(s) : s \in SeqsOver(Inner)} \cup {TupleV(s) : s \in SeqsOver(Inner)}

Sets == {SetV(s) : s \in {q \in SeqsOver(Hashables) : Distinct(q)}}

StreamValues ==
    Scalars \cup {FullD, PartialD} \cup Mappings \cup Sequences \cup Sets \cup RecordMappings

InitTokens ==
    /\ customizers = <<>>
    /\ call = NoCall("init")
    /\ strikes = [f \in AlwaysRaisers |-> 0]
    /\ \E value \in StreamValues, given \in StreamLists :
          stream = [op |-> "args", value |-> value, given |-> given]

\* list(TokenStream(value, customizers=given))
Tokens ==
    /\ stream.op = "args"
    /\ \E st \in {TokenStream_iter(stream.value, TokenStream(stream.given))} :
          stream' = [op |-> "tokens", value |-> stream.value, given |-> stream.given,
                     tokens |-> st.tokens, nodes |-> st.nodes,
                     customizers |-> st.customizers, err |-> st.err,
                     warned |-> st.warned]
    /\ UNCHANGED <<customizers, call, strikes>>

\* Token(kind=kind, value_=value_, parent=parent), the parent being None (0)
\* or a VALUE token
NewToken ==
    /\ stream.op = "args"
    /\ \E kind \in KindAll \cup {"BOGUS"}, value_ \in {MISSING, NoneV, IntV("1")},
          parent \in {0, 1} :
          stream' = [op |-> "token", kind |-> kind, value_ |-> value_, parent |-> parent,
                     raised |-> TokenInitRaises(kind, value_, parent)]
    /\ UNCHANGED <<customizers, call, strikes>>

\* a second list(stream) on the instance that was iterated: __iter__ is a
\* generator function, the call starts a traversal of self.value with the
\* private registry as the first iteration left it
TokensAgain ==
    /\ stream.op = "tokens"
    /\ \E st \in {TokenStream_iter(stream.value, stream.customizers)} :
          stream' = [op |-> "again", value |-> stream.value, given |-> stream.given,
                     first |-> [tokens |-> stream.tokens, err |-> stream.err,
                                customizers |-> stream.customizers],
                     tokens |-> st.tokens, nodes |-> st.nodes,
                     customizers |-> st.customizers, err |-> st.err,
                     warned |-> st.warned]
    /\ UNCHANGED <<customizers, call, strikes>>

NextTokens == Tokens \/ NewToken \/ TokensAgain

SpecTokens == InitTokens /\ [][NextTokens]_vars

(***************************************************************************)
(* The top-level API driven directly: the arguments of one xdumps() or      *)
(* dumps() call are drawn in the initial state.                             *)
(***************************************************************************)
XItems == {IntV("1"), StrV("a"), ListV(<<IntV("2"), IntV("3")>>)}
XMembers == {IntV("1"), IntV("2"), StrV("a")}
XKeys == {StrV("a"), StrV("b"), StrV(Ellipsis)}
XMappingValues == {NoneV, IntV("1"), ListV(<<IntV("2"), IntV("3")>>)}

XMappings ==
    {DictV(ps) : ps \in {qs \in SeqsOver({Pair(k, v) : k \in XKeys, v \in XMappingValues}) :
                            \A i, j \in 1..Len(qs) : i # j => qs[i].items[1] # qs[j].items[1]}}

XSequences == {ListV(s) : s \in SeqsOver(XItems)} \cup {TupleV(s) : s \in SeqsOver(XItems)}

XSets == {SetV(s) : s \in {q \in SeqsOver(XMembers) : Distinct(q)}}

\* values the generated ones leave out: None as an element, frozensets, empty
\* containers in every position, a dataclass and an unknown object below the
\* root, three levels of nesting
XNested ==
    {ListV(<<NoneV>>), ListV(<<IntV("1"), NoneV>>),
     FrozensetV(<<>>), FrozensetV(<<IntV("1")>>), ListV(<<FrozensetV(<<IntV("1")>>)>>),
     DictV(<<Pair(StrV("a"), FrozensetV(<<IntV("1")>>))>>),
     ListV(<<ListV(<<>>), TupleV(<<>>), SetV(<<>>)>>), TupleV(<<DictV(<<>>)>>),
     DictV(<<Pair(StrV("a"), ListV(<<>>)), Pair(StrV("b"), DictV(<<>>)),
             Pair(StrV("c"), TupleV(<<>>))>>),
     DictV(<<Pair(StrV("a"), SetV(<<>>))>>),
     ListV(<<FullD>>), ListV(<<ObjectV("o")>>),
     ListV(<<ListV(<<ListV(<<IntV("2"), IntV("3")>>), IntV("1")>>)>>),
     DictV(<<Pair(StrV("a"), DictV(<<Pair(StrV("b"), ListV(<<IntV("1"), FloatV("1.5")>>))>>)),
             Pair(StrV("c"), BoolV("False"))>>)}

XValues ==
    Scalars \cup {FullD, PartialD} \cup XMappings \cup XSequences \cup XSets \cup XNested

\* the separators argument: None, or an explicit (item, key) pair
XSeparators == {NoSeparators, Separators(";", "=")}

JsonLiterals == Literals("null", "true", "false")
PyLiterals == Literals("None", "True", "False")

InitXdumps ==
    /\ customizers = <<>>
    /\ call = NoCall("init")
    /\ strikes = [f \in AlwaysRaisers |-> 0]
    /\ \E value \in XValues, max_width \in -1..MaxWidth, max_depth \in -1..MaxDepth,
          indent \in {IndentNone, 0, 2}, separators \in XSeparators :
          /\ separators.none \/ (max_width = -1 /\ max_depth = -1)
          /\ stream = [op |-> "args", value |-> value, max_width |-> max_width,
                       max_depth |-> max_depth, indent |-> indent,
                       separators |-> separators]

Called(op, result) ==
    (CHOOSE r_ \in {
        [op |-> op, value |-> stream.value, max_width |-> stream.max_width,
        max_depth |-> stream.max_depth, indent |-> stream.indent,
        separators |-> stream.separators,
        tokens |-> r.tokens, nodes |-> r.nodes, customizers |-> r.customizers,
        err |-> r.err, chunks |-> r.chunks, text |-> r.text]
      : r \in {result}} : TRUE)

\* xdumps(value, indent=indent, separators=separators, max_width=max_width,
\*        max_depth=max_depth)
Xdumps ==
    /\ stream.op = "args"
    /\ stream' = Called("xdumps",
                        xdumps(stream.value, stream.indent, stream.separators, PyLiterals, 0,
                               stream.max_width, stream.max_depth, <<>>, TRUE))
    /\ UNCHANGED <<customizers, call, strikes>>

\* dumps(value, indent=indent, separators=separators, max_width=max_width,
\*       max_depth=max_depth): the keyword arguments replace the defaults, the
\* json literals and string_bypass=False stay
Dumps ==
    /\ stream.op = "args"
    /\ stream' = Called("dumps",
                        xdumps(stream.value, stream.indent, stream.separators, JsonLiterals, 0,
                               stream.max_width, stream.max_depth, <<>>, FALSE))
    /\ UNCHANGED <<customizers, call, strikes>>

NextXdumps == Xdumps \/ Dumps

SpecXdumps == InitXdumps /\ [][NextXdumps]_vars

(***************************************************************************)
(* Claims about the registry.                                              *)
(***************************************************************************)
Max(S) == CHOOSE x \in S : \A y \in S : y <= x
Min(S) == CHOOSE x \in S : \A y \in S : x <= y

\* what each customizer of the list answers for the call's value and depth
Results(cs, value, depth) == [i \in 1..Len(cs) |-> Invoke(cs[i], value, depth)]

Stops(r) == r.kind = "str" \/ (r.kind = "cust" /\ ~r.c.continue_chain)

ResumeOnReturn ==
    (call.op = "customize" /\ ~call.raised) =>
        LET rs == Results(call.before, call.value, call.depth)
            stop == {i \in 1..Len(rs) : Stops(rs[i])}
            n == IF stop = {} THEN Len(rs) ELSE Min(stop)
        IN  /\ call.invoked = SubSeq(call.before, 1, n)
            /\ \A i \in 1..n : rs[i].kind = "raise" => ~Contains(customizers, call.before[i])

\* C2: a customizer that raises on every call is invoked at most once while it
\* stays registered: after its failing invocation it is absent from the list
\* and no later customize call invokes it.
C2_RaiserInvokedOnce ==
    \A f \in AlwaysRaisers :
        /\ strikes[f] <= 1
        /\ strikes[f] = 1 => ~Contains(customizers, f)

C2_Witness ==
    /\ strikes[uRaise] = 1
    /\ call.op = "customize"
    /\ ~Contains(call.before, uRaise)
    /\ Len(call.invoked) > 0

\* the latest result among rs[1..n] whose customization satisfies Has, or 0
Latest(rs, n, Has(_)) ==
    LET S == {i \in 1..n : rs[i].kind = "cust" /\ Has(rs[i].c)}
    IN  IF S = {} THEN 0 ELSE Max(S)

\* C3: when the customizers of a chain return Customization results (None
\* results skipped), customize returns the left-to-right merge of the results
\* up to the first one with continue_chain = false: each of delimiters, value
\* override, raw_string, raw_key_strings and source_type holds the latest
\* non-default value, no customizer after the stopping one is invoked, and a
\* chain of None results returns None.
C3_MergeIsFold ==
    call.op = "customize" =>
        LET rs == Results(call.before, call.value, call.depth)
            stop == {i \in 1..Len(rs) : rs[i].kind = "cust" /\ ~rs[i].c.continue_chain}
            n == IF stop = {} THEN Len(rs) ELSE Min(stop)
            d == Latest(rs, n, LAMBDA c : ~c.delimiters.none)
            v == Latest(rs, n, LAMBDA c : override(c))
            s == Latest(rs, n, LAMBDA c : c.source_type # "")
            any == Latest(rs, n, LAMBDA c : TRUE)
        IN  (\A i \in 1..n : rs[i].kind \in {"none", "cust"}) =>
              /\ ~call.raised
              /\ call.invoked = SubSeq(call.before, 1, n)
              /\ call.result.none = (any = 0)
              /\ any # 0 =>
                  /\ call.result.delimiters = IF d = 0 THEN NoDelimiters ELSE rs[d].c.delimiters
                  /\ call.result.value = IF v = 0 THEN MISSING ELSE rs[v].c.value
                  /\ call.result.source_type = IF s = 0 THEN "" ELSE rs[s].c.source_type
                  /\ call.result.raw_string = (Latest(rs, n, LAMBDA c : c.raw_string) # 0)
                  /\ call.result.raw_key_strings =
                        (Latest(rs, n, LAMBDA c : c.raw_key_strings) # 0)

\* a chain with three results, two of them value overrides of which the later
\* one is returned, stopped before the end of the list
C3_Witness ==
    /\ call.op = "customize"
    /\ ~call.raised
    /\ Len(call.invoked) < Len(call.before)
    /\ LET rs == Results(call.invoked, call.value, call.depth)
           custs == {i \in 1..Len(rs) : rs[i].kind = "cust"}
           overs == {i \in custs : override(rs[i].c)}
       IN  /\ Cardinality(custs) >= 3
           /\ Cardinality(overs) >= 2
           /\ call.result.value = rs[Max(overs)].c.value
           /\ call.result.value # rs[Min(overs)].c.value
    /\ ~call.result.continue_chain

\* C4: when a customizer returns a plain string s, customize returns at once a
\* customization with value override s, raw_string = true, continue_chain =
\* false: no later customizer is invoked and nothing accumulated from earlier
\* customizers of the call is carried into the result.
C4_RawStringHalts ==
    call.op = "customize" =>
        \A k \in 1..Len(call.invoked) :
            LET r == Invoke(call.invoked[k], call.value, call.depth)
            IN  r.kind = "str" =>
                  /\ k = Len(call.invoked)
                  /\ ~call.raised
                  /\ call.result =
                        XTokenCustomization(NoDelimiters, FALSE, StrV(r.s), TRUE, FALSE, "", FALSE)

\* a string result after an earlier customizer gave delimiters and suppress,
\* with customizers left in the list behind it
C4_Witness ==
    /\ call.op = "customize"
    /\ Len(call.invoked) >= 2
    /\ Invoke(call.invoked[1], call.value, call.depth).kind = "cust"
    /\ ~Invoke(call.invoked[1], call.value, call.depth).c.delimiters.none
    /\ Invoke(call.invoked[Len(call.invoked)], call.value, call.depth).kind = "str"
    /\ Len(call.invoked) < Len(customizers)
    /\ call.result.value = StrV("S")
(***************************************************************************)
(* Claims about the token stream.                                          *)
(***************************************************************************)
Done == stream.op = "tokens"
Completed == Done /\ stream.err = ""

IdsOf(p) == {c \in 1..Len(stream.nodes) : stream.nodes[c].parent = p}

\* the VALUE tokens built for the children of node p, in the order built
Children(p) == SelectSeq(stream.nodes, LAMBDA n : n.parent = p)

ChildValues(p) == [i \in 1..Len(Children(p)) |-> Children(p)[i].value_]

Opened(p) ==
    \E i \in 1..Len(stream.tokens) :
        stream.tokens[i].kind = "OPEN" /\ stream.tokens[i].parent = p

Closed(p) ==
    \E i \in 1..Len(stream.tokens) :
        stream.tokens[i].kind = "CLOSE" /\ stream.tokens[i].parent = p

TokensOfKind(kind, p) ==
    {i \in 1..Len(stream.tokens) :
        stream.tokens[i].kind = kind /\ stream.tokens[i].parent = p}

\* whether a customizer suppresses x as a child of node p
Suppressed(x, p) ==
    LET c == customize(stream.customizers, x, NodeDepth(stream.nodes, p) + 1).result
    IN  ~c.none /\ c.suppress

\* the items (elements, or key/value pairs) of node p no customizer suppresses
SurvivingItems(p) ==
    SelectSeq(TokenValue(stream.nodes[p]).items, LAMBDA x : ~Suppressed(x, p))

\* token i is the first / the last token of an item of container p
StartsItemOf(i, p) ==
    LET t == stream.tokens[i]
    IN  \/ t.kind = "VALUE" /\ t.parent = p
        \/ t.kind = "OPEN" /\ stream.nodes[t.parent].parent = p

EndsItemOf(i, p) ==
    LET t == stream.tokens[i]
    IN  \/ t.kind = "VALUE" /\ t.parent = p
        \/ t.kind = "CLOSE" /\ stream.nodes[t.parent].parent = p

\* C5: in a completed stream every container with k surviving items has
\* exactly max(0, k-1) ITEM_SEP tokens of its own, each directly between the
\* end of one of its items and the start of the next: never directly after
\* its OPEN, never directly before its CLOSE.
C5_ItemSeparators ==
    Completed =>
        \A p \in 1..Len(stream.nodes) :
            Opened(p) =>
                /\ Cardinality(TokensOfKind("ITEM_SEP", p))
                      = Max({0, Len(SurvivingItems(p)) - 1})
                /\ \A i \in TokensOfKind("ITEM_SEP", p) :
                      /\ 1 < i /\ i < Len(stream.tokens)
                      /\ EndsItemOf(i - 1, p)
                      /\ StartsItemOf(i + 1, p)

\* a completed stream with a container that lost an item to suppression and
\* kept at least two, so that a separator had to be placed and one withheld
C5_Witness ==
    /\ Completed
    /\ \E p \in 1..Len(stream.nodes) :
          /\ Opened(p)
          /\ Len(SurvivingItems(p)) >= 2
          /\ Len(SurvivingItems(p)) < Len(TokenValue(stream.nodes[p]).items)
          /\ Cardinality(TokensOfKind("ITEM_SEP", p)) = Len(SurvivingItems(p)) - 1

RootToken == stream.nodes[1]

RootSuppressed == ~RootToken.customization.none /\ RootToken.customization.suppress

\* container-shaped: a mapping, a sequence other than str / bytes, or a set
ContainerShaped(v) == IsMapping(v) \/ (IsSequence(v) /\ ~IsStrOrBytes(v)) \/ IsSet(v)

\* C6: a root that is not suppressed and, after customization, not
\* container-shaped (a str or bytes root included) yields exactly one VALUE
\* token and no error; a container-shaped root yields OPEN ... CLOSE.
C6_RootShape ==
    (Done /\ ~RootSuppressed) =>
        IF ~ContainerShaped(TokenValue(RootToken))
        THEN /\ stream.err = ""
             /\ stream.tokens = <<RootToken>>
        ELSE (stream.err = "" /\ RootToken.customization.none) =>
                /\ Len(stream.tokens) >= 2
                /\ stream.tokens[1] = TokenOPEN(1, FALSE)
                /\ stream.tokens[Len(stream.tokens)] = TokenCLOSE(1, FALSE)

\* node c is emitted exactly once: as its VALUE token or as its OPEN
EmittedOnce(c) ==
    Cardinality({i \in 1..Len(stream.tokens) :
                    \/ stream.tokens[i].kind = "VALUE" /\ stream.tokens[i].id = c
                    \/ stream.tokens[i].kind = "OPEN" /\ stream.tokens[i].parent = c}) = 1

\* C7: the traversal of every opened sequence or set runs to its CLOSE
\* without an error, and its children are exactly the non-suppressed
\* elements (None among them), each emitted once, in iteration order.
C7_SequenceTraversal ==
    Done =>
        \A p \in 1..Len(stream.nodes) :
            (Opened(p) /\ (is_sequence(stream.nodes[p]) \/ is_set(stream.nodes[p]))) =>
                /\ stream.err = ""
                /\ Closed(p)
                /\ ChildValues(p) = SurvivingItems(p)
                /\ \A c \in IdsOf(p) : EmittedOnce(c)

\* the keys and values of a sequence of pairs, flattened
RECURSIVE Flatten(_)
Flatten(pairs) ==
    IF pairs = <<>> THEN <<>>
    ELSE <<Head(pairs).items[1], Head(pairs).items[2]>> \o Flatten(Tail(pairs))

\* C8: for every opened mapping the tokens of each surviving pair are the
\* key's tokens, one KV_SEP whose parent is the mapping token, the value's
\* tokens; the value's VALUE or OPEN token has is_kvv true and the key's
\* tokens have is_kvv false.
C8_MappingPairs ==
    Done =>
        \A p \in 1..Len(stream.nodes) :
            (Opened(p) /\ is_mapping(stream.nodes[p])) =>
                /\ Completed =>
                      /\ ChildValues(p) = Flatten(SurvivingItems(p))
                      /\ Cardinality(TokensOfKind("KV_SEP", p)) = Len(SurvivingItems(p))
                /\ \A i \in TokensOfKind("KV_SEP", p) :
                      /\ 1 < i
                      /\ EndsItemOf(i - 1, p)
                      /\ ~stream.tokens[i - 1].is_kvv
                      /\ ~stream.nodes[IF stream.tokens[i - 1].kind = "VALUE"
                                       THEN stream.tokens[i - 1].id
                                       ELSE stream.tokens[i - 1].parent].is_kvv
                      /\ Completed => i < Len(stream.tokens)
                      /\ i < Len(stream.tokens) =>
                            /\ StartsItemOf(i + 1, p)
                            /\ stream.tokens[i + 1].is_kvv
                /\ \A j \in 1..Len(Children(p)) :
                      LET c == Children(p)[j]
                      IN  /\ c.is_kvv = (j % 2 = 0)
                          /\ \A i \in 1..Len(stream.tokens) :
                                (j % 2 = 1 /\ (stream.tokens[i] = c
                                               \/ stream.tokens[i].parent = c.id))
                                    => ~stream.tokens[i].is_kvv

\* a completed stream with a mapping that kept two pairs, one with a
\* container key and one with a container value
C8_Witness ==
    /\ Completed
    /\ \E p \in 1..Len(stream.nodes) :
          /\ Opened(p) /\ is_mapping(stream.nodes[p])
          /\ Cardinality(TokensOfKind("KV_SEP", p)) >= 2
          /\ \E i, j \in TokensOfKind("KV_SEP", p) :
                /\ stream.tokens[i - 1].kind = "CLOSE"
                /\ stream.tokens[j + 1].kind = "OPEN" /\ stream.tokens[j + 1].is_kvv

(***************************************************************************)
(* Claims about the width limiter under the top-level API.                 *)
(***************************************************************************)
Rendered == stream.op \in {"xdumps", "dumps"}

\* the marker entry the limiter appends to a truncated sequence / mapping
MarkerOf(v) ==
    IF IsMapping(v) THEN <<XRawString(Ellipsis), XRawString(Ellipsis)>>
    ELSE <<XRawString(Ellipsis)>>

\* the values a container's entries contribute, in order
EntriesOf(v, items) == IF IsMapping(v) THEN Flatten(items) ELSE items

\* C9: with max_width = w > 0 (and no depth limit) every mapping, list or
\* tuple of at most w items is rendered as it is, and one of more than w
\* items is rendered as its first w original items, in order, followed by
\* exactly one ellipsis marker entry and nothing else.
C9_WidthTruncation ==
    (Rendered /\ stream.max_width > 0 /\ stream.max_depth = -1 /\ stream.err = "") =>
        \A p \in 1..Len(stream.nodes) :
            LET v == stream.nodes[p].value_
            IN  (IsMapping(v) \/ v.t \in {"list", "tuple"}) =>
                    /\ Opened(p) /\ Closed(p)
                    /\ IF Len(v.items) <= stream.max_width
                       THEN /\ TokenValue(stream.nodes[p]) = v
                            /\ ChildValues(p) = EntriesOf(v, v.items)
                       ELSE ChildValues(p) =
                                EntriesOf(v, Take(v.items, stream.max_width)) \o MarkerOf(v)

\* every atom of a value: keys, field names, items, at any depth
RECURSIVE AtomsOf(_)
AtomsOf(v) ==
    IF v.items = <<>> THEN IF v.t \in {"list", "tuple", "set", "dict", "dataclass"} THEN {}
                           ELSE {v}
    ELSE UNION {AtomsOf(v.items[i]) : i \in 1..Len(v.items)}

\* the pieces of text that display an atom
Renderings(a) ==
    {PyRepr(a)[1], stringify_atom(TokenFormatter(IndentNone, NoSeparators, JsonLiterals, FALSE), a)}

TextPieces == {stream.text[i] : i \in 1..Len(stream.text)}

\* C10: with max_width = 0 a root mapping, sequence, set or dataclass is
\* replaced as a whole: the output has the ellipsis and displays none of the
\* original keys, field names or items.
C10_WidthZeroReplaces ==
    (Rendered /\ stream.max_width = 0
        /\ (ContainerShaped(stream.value) \/ IsDataclass(stream.value))) =>
        /\ stream.err = ""
        /\ Ellipsis \in TextPieces
        /\ \A a \in AtomsOf(stream.value) \ {MISSING} : Renderings(a) \cap TextPieces = {}

(***************************************************************************)
(* Claims about the depth limiter under the top-level API.                 *)
(***************************************************************************)
\* what the caller handed in for node p: a container or a dataclass
IsContainerValue(v) == ContainerShaped(v) \/ IsDataclass(v)

\* node p stands in the stream as the single raw "..." token
ReplacedByEllipsis(p) ==
    LET n == stream.nodes[p]
    IN  /\ ~Opened(p)
        /\ IdsOf(p) = {}
        /\ ~n.customization.none /\ n.customization.raw_string
        /\ TokenValue(n) = StrV(Ellipsis)

\* C11: with max_depth = d >= 0 every mapping, sequence, set or dataclass
\* below depth d is rendered as the ellipsis alone and none of its children
\* is traversed, whichever other customizers are active; a container at
\* depth <= d is opened (unless the width limiter at 0 replaces it).
C11_DepthReplaces ==
    (Rendered /\ stream.max_depth >= 0) =>
        \A p \in 1..Len(stream.nodes) :
            IsContainerValue(stream.nodes[p].value_) =>
                IF NodeDepth(stream.nodes, p) > stream.max_depth
                THEN ReplacedByEllipsis(p)
                ELSE (stream.err = "" /\ stream.max_width # 0) => Opened(p)

\* the same with no width limit and no dataclass in the input
DepthReplacesAlone ==
    (Rendered /\ stream.max_depth >= 0 /\ stream.max_width = -1) =>
        \A p \in 1..Len(stream.nodes) :
            ContainerShaped(stream.nodes[p].value_) =>
                IF NodeDepth(stream.nodes, p) > stream.max_depth
                THEN ReplacedByEllipsis(p)
                ELSE stream.err = "" => Opened(p)

(***************************************************************************)
(* The top-level API on inputs with a cycle.                               *)
(***************************************************************************)
XCyclic ==
    {SelfList, SelfRecord, ListV(<<SelfList>>), DictV(<<Pair(StrV("a"), SelfRecord)>>),
     ListV(<<ListV(<<ListV(<<IntV("2"), IntV("3")>>), IntV("1")>>)>>),
     DictV(<<Pair(StrV("a"), ListV(<<IntV("2"), IntV("3")>>)), Pair(StrV("b"), FullD)>>)}

InitCyclic ==
    /\ customizers = <<>>
    /\ call = NoCall("init")
    /\ strikes = [f \in AlwaysRaisers |-> 0]
    /\ \E value \in XCyclic, max_width \in -1..MaxWidth, max_depth \in -1..MaxDepth,
          indent \in {IndentNone, 0, 2} :
          stream = [op |-> "args", value |-> value, max_width |-> max_width,
                    max_depth |-> max_depth, indent |-> indent,
                    separators |-> NoSeparators]

SpecCyclic == InitCyclic /\ [][NextXdumps]_vars

\* Token.depth of an emitted token
TokenDepth(nodes, token) ==
    IF token.kind = "VALUE" THEN NodeDepth(nodes, token.id)
    ELSE NodeDepth(nodes, token.parent) + 1

\* C12: with max_depth = d >= 0 a render of any input, one with a cycle
\* included, ends without running into the recursion limit, and no emitted
\* token lies deeper than d + 1, whatever other limiters and built-in stages
\* are active.
C12_DepthBoundsTraversal ==
    (Rendered /\ stream.max_depth >= 0) =>
        /\ stream.err # "RecursionError"
        /\ \A i \in 1..Len(stream.tokens) :
              TokenDepth(stream.nodes, stream.tokens[i]) <= stream.max_depth + 1

\* the same for inputs without a dataclass and with no width limit
DepthBoundsTraversalAlone ==
    (Rendered /\ stream.max_depth >= 0 /\ stream.max_width = -1
        /\ stream.value \in {SelfList, ListV(<<SelfList>>),
                             ListV(<<ListV(<<ListV(<<IntV("2"), IntV("3")>>), IntV("1")>>)>>)}) =>
        /\ stream.err = ""
        /\ \A i \in 1..Len(stream.tokens) :
              TokenDepth(stream.nodes, stream.tokens[i]) <= stream.max_depth + 1

(***************************************************************************)
(* The standard JSON encoder (json.dumps of the standard library), written *)
(* from its documentation: the yardstick of test_vs_json_dumps.            *)
(***************************************************************************)
RECURSIVE Concat(_)
Concat(ps) == IF ps = <<>> THEN "" ELSE Head(ps) \o Concat(Tail(ps))

RECURSIVE JsonPlain(_)
JsonPlain(v) ==
    CASE v.t \in {"NoneType", "bool", "int", "float", "str"} -> TRUE
      [] v.t = "list" -> \A i \in 1..Len(v.items) : JsonPlain(v.items[i])
      [] v.t = "dict" ->
            \A i \in 1..Len(v.items) :
                v.items[i].items[1].t = "str" /\ JsonPlain(v.items[i].items[2])
      [] OTHER -> FALSE

JsonNewline(indent, level) ==
    IF indent = IndentNone THEN "" ELSE "\n" \o Spaces(indent * level)

JsonItemSep(indent, separators) ==
    IF ~separators.none THEN separators.item
    ELSE IF indent = IndentNone THEN ", " ELSE ","

JsonKeySep(separators) == IF ~separators.none THEN separators.key ELSE ": "

RECURSIVE JsonEncode(_, _, _, _)
RECURSIVE JsonEncodeItems(_, _, _, _, _)
JsonEncodeItems(items, i, indent, separators, level) ==
    IF i > Len(items) THEN ""
    ELSE (IF i > 1 THEN JsonItemSep(indent, separators) ELSE "")
         \o JsonNewline(indent, level)
         \o (IF items[i].t = "tuple"
             THEN "\"" \o items[i].items[1].a \o "\"" \o JsonKeySep(separators)
                  \o JsonEncode(items[i].items[2], indent, separators, level)
             ELSE JsonEncode(items[i], indent, separators, level))
         \o JsonEncodeItems(items, i + 1, indent, separators, level)

JsonEncode(v, indent, separators, level) ==
    CASE v.t = "NoneType" -> "null"
      [] v.t = "bool" -> IF v.a = "True" THEN "true" ELSE "false"
      [] v.t \in {"int", "float"} -> v.a
      [] v.t = "str" -> "\"" \o v.a \o "\""
      [] v.t = "list" ->
            IF v.items = <<>> THEN "[]"
            ELSE "[" \o JsonEncodeItems(v.items, 1, indent, separators, level + 1)
                 \o JsonNewline(indent, level) \o "]"
      [] v.t = "dict" ->
            IF v.items = <<>> THEN "{}"
            ELSE "{" \o JsonEncodeItems(v.items, 1, indent, separators, level + 1)
                 \o JsonNewline(indent, level) \o "}"

JsonCase ==
    /\ stream.op = "dumps"
    /\ JsonPlain(stream.value)
    /\ stream.max_width = -1 /\ stream.max_depth = -1
    /\ stream.indent # 0

\* C13: for a composition of plain scalars, mappings and sequences, dumps
\* (the JSON literal spellings) returns character for character what the
\* standard JSON encoder returns for the same input, the same indent
\* (compact or positive) and the same separators.
C13_JsonIdentical ==
    JsonCase =>
        /\ stream.err = ""
        /\ Concat(stream.text) = JsonEncode(stream.value, stream.indent, stream.separators, 0)

RECURSIVE HoldsNone(_)
HoldsNone(v) ==
    \/ v.t = "list" /\ \E i \in 1..Len(v.items) : v.items[i].t = "NoneType"
    \/ \E i \in 1..Len(v.items) : HoldsNone(v.items[i])

\* the same for containers with no None among the elements of a sequence
JsonIdenticalWithoutNone ==
    (JsonCase /\ ContainerShaped(stream.value) /\ ~HoldsNone(stream.value)) =>
        /\ stream.err = ""
        /\ Concat(stream.text) = JsonEncode(stream.value, stream.indent, stream.separators, 0)

EmptyPlain(v) == v.t \in {"list", "dict", "tuple", "set"} /\ Items(v) = <<>>

EmptyOpen(v) == CASE v.t = "list" -> "[" [] v.t = "tuple" -> "(" [] OTHER -> "{"

EmptyClose(v) == CASE v.t = "list" -> "]" [] v.t = "tuple" -> ")" [] OTHER -> "}"

\* no limit turns the container at node p into an ellipsis
WithinLimits(p) ==
    /\ stream.max_width # 0
    /\ stream.max_depth = -1 \/ NodeDepth(stream.nodes, p) <= stream.max_depth

\* C14: in a finished render every empty list, mapping, tuple or set (one no
\* width or depth limit replaces) is its OPEN token followed at once by its
\* CLOSE token, and the two chunks are the open delimiter (after the
\* indentation of its position only) and the bare close delimiter: no
\* newline or space between them, for every indent and at the root, as a
\* sequence element and as a mapping value.
C14_EmptyContainers ==
    (Rendered /\ stream.err = "") =>
        \A p \in 1..Len(stream.nodes) :
            (EmptyPlain(stream.nodes[p].value_) /\ WithinLimits(p)) =>
                \E i \in 1..(Len(stream.tokens) - 1) :
                    /\ stream.tokens[i].kind = "OPEN" /\ stream.tokens[i].parent = p
                    /\ stream.tokens[i + 1].kind = "CLOSE"
                    /\ stream.tokens[i + 1].parent = p
                    /\ \E k \in 0..(2 * NodeDepth(stream.nodes, p)) :
                          stream.chunks[i] = <<Spaces(k) \o EmptyOpen(stream.nodes[p].value_)>>
                    /\ stream.chunks[i + 1] = <<EmptyClose(stream.nodes[p].value_)>>

\* an indenting render with an empty container as a sequence element
C14_Witness ==
    /\ Rendered /\ stream.err = "" /\ stream.indent = 2
    /\ \E p \in 1..Len(stream.nodes) :
          /\ EmptyPlain(stream.nodes[p].value_) /\ Opened(p)
          /\ NodeDepth(stream.nodes, p) > 0 /\ ~stream.nodes[p].is_kvv

\* the node a token's delimiters are looked up for
NodeOf(token) == IF token.kind = "VALUE" THEN token.id ELSE token.parent

\* the delimiters of the node's own customization, else the default of its own value
OwnDelimiters(p) ==
    LET n == stream.nodes[p]
    IN  IF ~n.customization.none /\ ~n.customization.delimiters.none
        THEN n.customization.delimiters
        ELSE for_object(TokenValue(n), stream.indent, stream.separators)

\* C15: for every token of a container-shaped value, Token.delimiters answers
\* with the delimiters of the value's own customization if it has them,
\* otherwise with the default of the value's own shape, and raises when there
\* is neither; the delimiters of an enclosing container are never the answer.
C15_OwnDelimiters ==
    Rendered =>
        \A i \in 1..Len(stream.tokens) :
            is_container(stream.nodes[NodeOf(stream.tokens[i])]) =>
                IF OwnDelimiters(NodeOf(stream.tokens[i])).none
                THEN /\ TokenDelimiters(stream.nodes, stream.tokens[i],
                                        stream.indent, stream.separators).none
                     /\ stream.err = "AssertionError"
                ELSE TokenDelimiters(stream.nodes, stream.tokens[i],
                                     stream.indent, stream.separators)
                        = OwnDelimiters(NodeOf(stream.tokens[i]))

RECURSIVE HoldsFrozenset(_)
HoldsFrozenset(v) ==
    \/ v.t = "frozenset"
    \/ \E i \in 1..Len(v.items) : HoldsFrozenset(v.items[i])

\* the same for inputs with no immutable set
OwnDelimitersOfBuiltins == HoldsFrozenset(stream.value) \/ C15_OwnDelimiters

\* the delimiters the documentation gives a container by shape and mode
DelimitersByShape(v, indent, separators) ==
    LET itemsep == IF ~separators.none THEN separators.item
                   ELSE IF indent = IndentNone THEN ", " ELSE ","
        kvsep == IF ~separators.none THEN separators.key ELSE ": "
    IN  CASE v.t \in {"dict", "set", "frozenset"} -> Delimiters("{", "}", itemsep, kvsep)
          [] v.t = "tuple" -> Delimiters("(", ")", itemsep, kvsep)
          [] OTHER -> Delimiters("[", "]", itemsep, kvsep)

\* C16: a value that the traversal treats as a container and that carries no
\* customization has the delimiters of its shape ({ } for mappings and for
\* sets, mutable or immutable, ( ) for tuples, [ ] for other sequences) and
\* the separators of the mode: the explicit override if given, else ", " and
\* ": " in compact mode and "," and ": " with any indent, 0 included.
C16_DefaultDelimiters ==
    Rendered =>
        \A p \in 1..Len(stream.nodes) :
            (stream.nodes[p].customization.none /\ is_container(stream.nodes[p])) =>
                for_object(stream.nodes[p].value_, stream.indent, stream.separators)
                    = DelimitersByShape(stream.nodes[p].value_, stream.indent, stream.separators)

\* the same for inputs with no immutable set
DefaultDelimitersOfBuiltins == HoldsFrozenset(stream.value) \/ C16_DefaultDelimiters

DefaultDelimitersCase ==
    /\ Rendered /\ stream.indent = 0 /\ ~stream.separators.none
    /\ \E p \in 1..Len(stream.nodes) :
          /\ stream.nodes[p].customization.none /\ is_container(stream.nodes[p])
          /\ stream.nodes[p].value_.t = "set" /\ Opened(p)

\* C17: every token a TokenStream emits keeps the token invariant: an OPEN,
\* CLOSE, KV_SEP or ITEM_SEP token has no value, no customization and a
\* parent that is a VALUE token, so only VALUE tokens carry a value or a
\* value override; and the constructor rejects a token of those four kinds
\* that is given a value or no parent.
C17_TokenInvariant ==
    /\ Done =>
          \A i \in 1..Len(stream.tokens) :
              stream.tokens[i].kind # "VALUE" =>
                  /\ stream.tokens[i].kind \in KindAll
                  /\ stream.tokens[i].value_ = MISSING
                  /\ stream.tokens[i].customization.none
                  /\ stream.tokens[i].parent \in 1..Len(stream.nodes)
                  /\ stream.nodes[stream.tokens[i].parent].kind = "VALUE"
    /\ (/\ stream.op = "token"
        /\ stream.kind \in KindAll \ {"VALUE"}
        /\ stream.value_ # MISSING \/ stream.parent = 0) => stream.raised

\* a finished stream with tokens of all five kinds, the structural ones
\* belonging to a VALUE token with a value override
C17_Witness ==
    /\ Completed
    /\ {stream.tokens[i].kind : i \in 1..Len(stream.tokens)} = KindAll
    /\ \E i \in 1..Len(stream.tokens) :
          /\ stream.tokens[i].kind = "KV_SEP"
          /\ ~stream.nodes[stream.tokens[i].parent].customization.none
          /\ override(stream.nodes[stream.tokens[i].parent].customization)

ConstructorRejects ==
    stream.op = "token" /\ stream.kind = "CLOSE" /\ stream.parent = 0
        /\ stream.value_ = MISSING /\ stream.raised

\* the four stages reset() registers
BuiltinStages ==
    {Fn("_customize_path", 0), Fn("_customize_dataclass", 0),
     Fn("_customize_exception", 0), Fn("_customize_raw_string", 0)}

CallersFirst(cs, given) ==
    /\ \A b \in BuiltinStages : Contains(cs, b)
    /\ \A i \in 1..Len(given) : Contains(cs, given[i])
    /\ \A i, j \in 1..Len(cs) :
          (cs[i] \in BuiltinStages /\ cs[j] \notin BuiltinStages) => j < i

\* C18: after CustomizerRegistry(customizers=given), for any list given, one
\* naming a customizer twice included, the registry holds the four built-in
\* stages and every customizer of given stands before every built-in stage.
C18_CallersFirst ==
    call.op = "init" => CallersFirst(customizers, call.given)

\* the same for lists that name no customizer twice
CallersFirstDistinct ==
    (call.op = "init"
        /\ \A i, j \in 1..Len(call.given) : call.given[i] = call.given[j] => i = j)
    => CallersFirst(customizers, call.given)

\* what the wrap customizer of a top-level render returns for a value
WrapResult(v) == _wrap_derived_class_instances_customizer(v, 0)

\* the merged customization has a field that only a customizer other than
\* the wrap customizer sets
ClaimedByAnother(n) ==
    /\ ~n.customization.none
    /\ \/ n.customization.raw_string
       \/ n.customization.raw_key_strings
       \/ n.customization.source_type # ""
       \/ override(n.customization) /\ n.customization.value # n.value_

\* C19: in a top-level render a value that a customizer other than the wrap
\* customizer (a caller's, a limiter or a built-in stage) returned a
\* customization for carries none of the wrap customizer's fields: its merged
\* delimiters are not the wrap customizer's open/close templates.
C19_WrapOnlyUnclaimed ==
    Rendered =>
        \A p \in 1..Len(stream.nodes) :
            (ClaimedByAnother(stream.nodes[p])
                /\ WrapResult(stream.nodes[p].value_).kind = "cust") =>
                stream.nodes[p].customization.delimiters
                    # WrapResult(stream.nodes[p].value_).c.delimiters

\* the same for dataclass values that no limiter replaces
WrapYieldsToDataclass ==
    Rendered =>
        \A p \in 1..Len(stream.nodes) :
            (ClaimedByAnother(stream.nodes[p]) /\ IsDataclass(stream.nodes[p].value_)
                /\ ~stream.nodes[p].customization.raw_string) =>
                stream.nodes[p].customization.delimiters
                    # WrapResult(stream.nodes[p].value_).c.delimiters

\* TypeName(f1=v1<itemsep>...<itemsep>fn=vn) for fields with scalar values
RECURSIVE RecordFields(_, _, _)
RecordFields(fields, i, itemsep) ==
    IF i > Len(fields) THEN ""
    ELSE (IF i > 1 THEN itemsep ELSE "")
         \o fields[i].items[1].a \o "=" \o fields[i].items[2].a
         \o RecordFields(fields, i + 1, itemsep)

RecordText(v, itemsep) ==
    TypeName(v) \o "(" \o RecordFields(InitializedFields(Items(v)), 1, itemsep) \o ")"

\* the same with the field names as JSON strings
RECURSIVE QuotedRecordFields(_, _, _)
QuotedRecordFields(fields, i, itemsep) ==
    IF i > Len(fields) THEN ""
    ELSE (IF i > 1 THEN itemsep ELSE "")
         \o "\"" \o fields[i].items[1].a \o "\"=" \o fields[i].items[2].a
         \o QuotedRecordFields(fields, i + 1, itemsep)

RecordCase ==
    /\ Rendered /\ stream.value \in {FullD, PartialD}
    /\ stream.max_width = -1 /\ stream.max_depth = -1
    /\ stream.indent = IndentNone /\ stream.separators.none

\* C20: a dataclass instance with initialized fields f1..fn renders as
\* TypeName(f1=v1, ..., fn=vn): the type name and "(" open it, "=" separates
\* a field from its value, the field names are raw text without quotes, and
\* a field that is not yet initialized is left out.
C20_RecordRendering ==
    RecordCase =>
        /\ stream.err = ""
        /\ Concat(stream.text) \in {RecordText(stream.value, ","), RecordText(stream.value, ", ")}

\* what is rendered: the same with every field name in double quotes
RecordRenderingQuoted ==
    RecordCase =>
        /\ stream.err = ""
        /\ Concat(stream.text)
              = TypeName(stream.value) \o "("
                \o QuotedRecordFields(InitializedFields(Items(stream.value)), 1, ",") \o ")"

(***************************************************************************)
(* The registry called with the strict keyword: customize(value, depth,    *)
(* strict=...) hands the keyword to every customizer of the list.          *)
(***************************************************************************)
PartialE == DataclassV("E", <<Pair(StrV("x"), IntV("1")), Pair(StrV("y"), MISSING)>>)

StrictValues == RegValues \cup {PartialE}

CustomizeKw(value, depth, kwargs) ==
    \E out \in {customize_kwargs(customizers, value, depth, kwargs)} :
        /\ customizers' = out.customizers
        /\ call' = [op |-> "customize_kwargs", value |-> value, depth |-> depth,
                    kwargs |-> kwargs, before |-> customizers, invoked |-> out.invoked,
                    result |-> out.result, raised |-> out.raised]
        /\ strikes' = [f \in AlwaysRaisers |-> strikes[f] + Count(out.invoked, f)]
        /\ UNCHANGED stream

NextStrict ==
    \/ Reset
    \/ \E value \in StrictValues, depth \in 0..MaxDepthArg,
          kwargs \in {"strict=true", "strict=false"} : CustomizeKw(value, depth, kwargs)

SpecStrict == InitRegistry /\ [][NextStrict]_vars

HasUninitializedField(v) ==
    IsDataclass(v) /\ \E i \in 1..Len(v.items) : v.items[i].items[2] = MISSING

StrictCase ==
    /\ call.op = "customize_kwargs" /\ call.kwargs = "strict=true"
    /\ HasUninitializedField(call.value)
    /\ Contains(call.before, Fn("_customize_dataclass", 0))

\* C21: when customize is called with strict=True for a dataclass instance
\* that has a field not yet initialized (the dataclass stage being
\* registered), the call raises to its caller and returns no customization.
C21_StrictRaises == StrictCase => call.raised

\* what happens instead when repr(value) does not raise: the call returns
\* None and every customizer that was invoked has been removed
StrictIsSwallowed ==
    (StrictCase /\ ~ReprRaises(call.value)) =>
        /\ ~call.raised /\ call.result.none
        /\ \A i \in 1..Len(call.invoked) : ~Contains(customizers, call.invoked[i])

\* with strict=False on a record with a safe repr the record is flattened
NotStrictFlattens ==
    (/\ call.op = "customize_kwargs" /\ call.kwargs = "strict=false"
     /\ IsDataclass(call.value) /\ ~ReprRaises(call.value)
     /\ Contains(call.before, Fn("_customize_dataclass", 0))) =>
        /\ ~call.raised
        /\ call.result = _customize_dataclass(call.value, call.depth).c

\* node n is the key or the value of a pair of an opened mapping
IsHalf(n) ==
    /\ stream.nodes[n].parent # 0
    /\ is_mapping(stream.nodes[stream.nodes[n].parent])

SuppressedHalf(n) ==
    IsHalf(n) /\ ~stream.nodes[n].customization.none /\ stream.nodes[n].customization.suppress

\* the VALUE token of node n, or its OPEN token, is in the stream
EmittedNode(n) ==
    \E i \in 1..Len(stream.tokens) :
        \/ stream.tokens[i].kind = "VALUE" /\ stream.tokens[i].id = n
        \/ stream.tokens[i].kind = "OPEN" /\ stream.tokens[i].parent = n

\* the other half of the pair of node n is emitted as well
PartnerEmitted(n) ==
    \E m \in 1..Len(stream.nodes) :
        /\ stream.nodes[m].parent = stream.nodes[n].parent
        /\ stream.nodes[m].is_kvv # stream.nodes[n].is_kvv
        /\ IF stream.nodes[n].is_kvv THEN m < n ELSE m > n
        /\ \A k \in (Min({m, n}) + 1)..(Max({m, n}) - 1) :
              stream.nodes[k].parent # stream.nodes[n].parent
        /\ EmittedNode(m)

\* the customizers with the suppress flag of every answer set to false
Unflagged(given) ==
    [i \in 1..Len(given) |-> [given[i] EXCEPT !.res.c.suppress = FALSE]]

EraseSuppress(tokens) ==
    [i \in 1..Len(tokens) |-> [tokens[i] EXCEPT !.customization.suppress = FALSE]]

\* a mapping of scalar and record halves, with customizers that mark halves only
HalvesOnlyCase ==
    /\ Done /\ IsMapping(stream.value)
    /\ stream.given \in {<<sSupInt>>, <<sSupRecord>>}
    /\ \A i \in 1..Len(stream.value.items) :
          /\ ~ContainerShaped(stream.value.items[i].items[1])
          /\ ~ContainerShaped(stream.value.items[i].items[2])

\* C22: when a customizer marks the key alone or the value alone of a mapping
\* pair as suppressed, a warning is raised for that half and the pair is
\* emitted as if the flag were false: key token(s), KV_SEP and value
\* token(s) are all in the stream, and the stream is the one the same
\* customizers produce with suppress = false.
C22_HalfSuppressionWarns ==
    /\ Done =>
          \A n \in 1..Len(stream.nodes) :
              SuppressedHalf(n) =>
                  /\ \E i \in 1..Len(stream.warned) : stream.warned[i] = stream.nodes[n].value_
                  /\ EmittedNode(n) /\ PartnerEmitted(n)
                  /\ Cardinality(TokensOfKind("KV_SEP", stream.nodes[n].parent)) >= 1
    /\ HalvesOnlyCase =>
          /\ stream.err = ""
          /\ EraseSuppress(stream.tokens)
                = EraseSuppress(TokenStream_iter(stream.value,
                                                 TokenStream(Unflagged(stream.given))).tokens)

\* the same when the repr of no suppressed half raises
HalfSuppressionWarnsSafeRepr ==
    (Done /\ ReprRaises(stream.value)) \/ C22_HalfSuppressionWarns

\* C23: a TokenStream is consumed once: a second iteration of the instance
\* that was iterated does not restart the traversal and yields no token again.
C23_SingleConsumption ==
    stream.op = "again" => (stream.tokens = <<>> /\ stream.err = "")

\* what the second iteration does: it is a new traversal with the registry the
\* first one left, so it repeats the first stream when no customizer was removed
SecondIterationRestarts ==
    stream.op = "again" =>
        /\ stream.tokens = TokenStream_iter(stream.value, stream.first.customizers).tokens
        /\ (stream.first.customizers = TokenStream(stream.given)
               => stream.tokens = stream.first.tokens /\ stream.err = stream.first.err)

(***************************************************************************)
(* The top-level API called twice with the caller's own customizer list,   *)
(* a left-pad and the escape option.                                       *)
(***************************************************************************)
MaxRshift == 2

RenderValues ==
    {IntV("1"), StrV("é"), ListV(<<>>), ListV(<<StrV("é")>>),
     ListV(<<IntV("1"), StrV("a")>>), ListV(<<ListV(<<IntV("1")>>), StrV("é")>>),
     DictV(<<Pair(StrV("a"), IntV("1"))>>),
     DictV(<<Pair(StrV("é"), ListV(<<IntV("1"), IntV("2")>>))>>),
     TupleV(<<IntV("1"), NoneV>>), FullD}

RenderLists == {<<>>, <<uRaiseInt>>, <<uStr>>, <<uRaiseInt, uStr>>, <<uStr, uRaiseInt>>}

NoRender == [text |-> <<>>, err |-> "", customizers |-> <<>>, tokens |-> <<>>]

InitRender ==
    /\ customizers = <<>>
    /\ call = NoCall("init")
    /\ strikes = [f \in AlwaysRaisers |-> 0]
    /\ \E value \in RenderValues, indent \in {IndentNone, 0, 2}, rshift \in 0..MaxRshift,
          escape_unicode \in BOOLEAN, given \in RenderLists :
          stream = [op |-> "args", value |-> value, indent |-> indent, rshift |-> rshift,
                    escape_unicode |-> escape_unicode, supplied |-> given, given |-> given,
                    first |-> NoRender, second |-> NoRender]

\* the caller's list after a call: xdumps extends a copy of it, never the list
CallerList_mutant(given, _customizers) == _customizers

CallerList(given, _customizers) == given

\* xdumps(value, indent=indent, rshift=rshift, escape_unicode=escape_unicode,
\*        customizers=given): what the call leaves behind
RenderCall(given) ==
    (CHOOSE r_ \in {
        [text |-> r.text, err |-> r.err, customizers |-> r.customizers, tokens |-> r.tokens]
      : r \in {xdumps_kw(stream.value, stream.indent, NoSeparators, PyLiterals, stream.rshift,
                         -1, -1, given, TRUE, stream.escape_unicode)}} : TRUE)

RenderFirst ==
    /\ stream.op = "args"
    /\ stream' = [stream EXCEPT !.op = "first", !.first = RenderCall(stream.given),
                    !.given = CallerList(stream.given,
                                         stream.given \o libpath_path_as_posix
                                         \o max_container_width(-1) \o max_container_depth(-1)
                                         \o wrap_derived_class_instances)]
    /\ UNCHANGED <<customizers, call, strikes>>

RenderSecond ==
    /\ stream.op = "first"
    /\ stream' = [stream EXCEPT !.op = "second", !.second = RenderCall(stream.given),
                    !.given = CallerList(stream.given,
                                         stream.given \o libpath_path_as_posix
                                         \o max_container_width(-1) \o max_container_depth(-1)
                                         \o wrap_derived_class_instances)]
    /\ UNCHANGED <<customizers, call, strikes>>

NextRender == RenderFirst \/ RenderSecond

SpecRender == InitRender /\ [][NextRender]_vars

RECURSIVE StrAtomsBelow(_)
StrAtomsBelow(v) ==
    UNION {(IF Items(v)[i].t = "str" THEN {Items(v)[i].a} ELSE {})
           \cup StrAtomsBelow(Items(v)[i]) : i \in 1..Len(Items(v))}

NonAsciiAtoms(v) == StrAtomsBelow(v) \cap DOMAIN AsciiEscapes

RenderDone == stream.op \in {"first", "second"} /\ stream.first.err = ""

\* C25: escape_unicode controls the escaping of the non-ASCII characters of
\* string atoms: escape sequences when it is true, the characters themselves
\* when it is false
C25_EscapeUnicodeControls ==
    RenderDone =>
        \A a \in NonAsciiAtoms(stream.value) :
            IF stream.escape_unicode
            THEN \E i \in 1..Len(stream.first.text) :
                    stream.first.text[i] = "\"" \o AsciiEscapes[a] \o "\""
            ELSE \E i \in 1..Len(stream.first.text) :
                    stream.first.text[i] = "\"" \o a \o "\""

\* what the code does: the escape sequence, whatever the option says
EscapeUnicodeIgnored ==
    RenderDone =>
        \A a \in NonAsciiAtoms(stream.value) :
            /\ \E i \in 1..Len(stream.first.text) :
                  stream.first.text[i] = "\"" \o AsciiEscapes[a] \o "\""
            /\ \A i \in 1..Len(stream.first.text) : stream.first.text[i] # "\"" \o a \o "\""

EscapeUnicodeIgnoredCase ==
    RenderDone /\ ~stream.escape_unicode /\ NonAsciiAtoms(stream.value) # {}

\* the text without the pad in front of every line; a line that does not
\* begin with the pad is kept under a mark
RECURSIVE Unpadded(_, _, _)
Unpadded(text, pad, at_line_start) ==
    IF text = <<>> THEN <<>>
    ELSE IF at_line_start
    THEN IF Head(text) = pad THEN Unpadded(Tail(text), pad, FALSE)
         ELSE <<"<no pad>">> \o Unpadded(text, pad, FALSE)
    ELSE <<Head(text)>> \o Unpadded(Tail(text), pad, Head(text) = "\n")

\* C26: with a left-pad of N > 0 every line of the output begins with N
\* added spaces, and without them the output is that of the same render
\* with no left-pad, whatever the structural indentation is
C26_LeftPad ==
    (RenderDone /\ stream.rshift > 0) =>
        Concat(Unpadded(stream.first.text, Spaces(stream.rshift), TRUE))
          = Concat(xdumps_kw(stream.value, stream.indent, NoSeparators, PyLiterals, 0, -1, -1,
                             stream.supplied, TRUE, stream.escape_unicode).text)

\* a padded render of several indented lines
C26_Witness ==
    /\ RenderDone /\ stream.rshift = MaxRshift /\ stream.indent = 2
    /\ Len(SelectSeq(stream.first.text, LAMBDA p : p = "\n")) >= 4
    /\ \E i \in 1..Len(stream.first.text) - 1 :
          stream.first.text[i] = Spaces(stream.rshift) /\ stream.first.text[i + 1] = "    "

\* C27: after any sequence of register, reset and customize no customizer
\* occurs twice in the registry's list; registering one that is already
\* there moves it to the requested index (the end of the list at most)
C27_NoDuplicates ==
    /\ Distinct(customizers)
    /\ (call.op = "register" /\ Contains(call.before, call.func)) =>
          /\ Len(customizers) = Len(call.before)
          /\ customizers[Min({call.idx, Len(customizers) - 1}) + 1] = call.func

\* a customizer that was in the list is registered again at another index
C27_Witness ==
    /\ call.op = "register"
    /\ Contains(call.before, call.func)
    /\ IndexOf(call.before, call.func) # IndexOf(customizers, call.func)
    /\ Len(customizers) >= 3

\* the Customization results of the customizers a customize call invoked, in
\* the order of the calls
CustResults(invoked, value, depth) ==
    SelectSeq([i \in 1..Len(invoked) |-> Invoke(invoked[i], value, depth)],
              LAMBDA r : r.kind = "cust")

EndedByStr(invoked, value, depth) ==
    \E i \in 1..Len(invoked) : Invoke(invoked[i], value, depth).kind = "str"

MergeCase ==
    /\ call.op = "customize"
    /\ ~call.raised
    /\ CustResults(call.invoked, call.value, call.depth) # <<>>

\* C28 as stated: the suppress flag of the Customization that customize
\* returns is the one of the first Customization result of the chain
C28_SuppressOfFirst ==
    MergeCase =>
        /\ ~call.result.none
        /\ call.result.suppress = CustResults(call.invoked, call.value, call.depth)[1].c.suppress

\* C28, for the chains that no plain string ends: the suppress flag of the
\* returned Customization is the one of the first Customization result, and
\* suppress = true of a later result is dropped
C28_SuppressNotMerged ==
    (MergeCase /\ ~EndedByStr(call.invoked, call.value, call.depth)) =>
        /\ ~call.result.none
        /\ call.result.suppress = CustResults(call.invoked, call.value, call.depth)[1].c.suppress

\* a later customizer of the chain asked for suppress and the result has none
C28_Witness ==
    /\ MergeCase
    /\ ~EndedByStr(call.invoked, call.value, call.depth)
    /\ ~call.result.suppress
    /\ \E i \in 2..Len(CustResults(call.invoked, call.value, call.depth)) :
          CustResults(call.invoked, call.value, call.depth)[i].c.suppress

\* a plain string after a suppressing Customization: the result is the raw
\* string alone
SuppressLostToStr ==
    (MergeCase /\ EndedByStr(call.invoked, call.value, call.depth)) =>
        /\ ~call.result.suppress
        /\ call.result.raw_string

\* in a stream: the suppress of the customizer consulted second is dropped,
\* and the tokens are those of the stream with no caller customizer
LaterSuppressStillEmitted ==
    (Completed /\ stream.given = <<sSupInt, sPlainInt>>) =>
        /\ [i \in 1..Len(stream.tokens) |-> [kind |-> stream.tokens[i].kind, value_ |-> stream.tokens[i].value_]]
             = [i \in 1..Len(TokenStream_iter(stream.value, TokenStream(<<>>)).tokens) |->
                  [kind |-> TokenStream_iter(stream.value, TokenStream(<<>>)).tokens[i].kind,
                   value_ |-> TokenStream_iter(stream.value, TokenStream(<<>>)).tokens[i].value_]]
        /\ \A i \in 1..Len(stream.tokens) :
              (stream.tokens[i].kind = "VALUE" /\ stream.tokens[i].value_.t = "int")
                 => ~stream.tokens[i].customization.none /\ ~stream.tokens[i].customization.suppress

\* the node a token hangs below: the VALUE token's own parent, the container
\* of a structural token
RECURSIVE Below(_, _)
Below(id, p) ==
    IF id = 0 THEN FALSE
    ELSE id = p \/ Below(stream.nodes[id].parent, p)

DescendsFrom(token, p) == Below(token.parent, p)

\* OPEN tokens minus CLOSE tokens among the first k tokens
Balance(k) ==
    Cardinality({i \in 1..k : stream.tokens[i].kind = "OPEN"})
      - Cardinality({i \in 1..k : stream.tokens[i].kind = "CLOSE"})

\* the CLOSE that ends the OPEN at i: the first later position at which the
\* balance is back to the one before i; 0 when there is none
MatchOf(i) ==
    IF \E j \in (i + 1)..Len(stream.tokens) : Balance(j) = Balance(i - 1)
    THEN Min({j \in (i + 1)..Len(stream.tokens) : Balance(j) = Balance(i - 1)})
    ELSE 0

\* C29: in a completed stream OPEN and CLOSE tokens are balanced and nested:
\* every OPEN has exactly one CLOSE of the same parent, which is the one that
\* ends it, no prefix has more CLOSE than OPEN tokens, and the tokens between
\* the two descend from the OPEN's parent
C29_BalancedNested ==
    Completed =>
        /\ \A k \in 0..Len(stream.tokens) : Balance(k) >= 0
        /\ Balance(Len(stream.tokens)) = 0
        /\ \A i \in 1..Len(stream.tokens) :
              stream.tokens[i].kind = "OPEN" =>
                 /\ MatchOf(i) # 0
                 /\ stream.tokens[MatchOf(i)].kind = "CLOSE"
                 /\ {j \in 1..Len(stream.tokens) :
                        stream.tokens[j].kind = "CLOSE"
                        /\ stream.tokens[j].parent = stream.tokens[i].parent} = {MatchOf(i)}
                 /\ Cardinality({j \in 1..Len(stream.tokens) :
                        stream.tokens[j].kind = "OPEN"
                        /\ stream.tokens[j].parent = stream.tokens[i].parent}) = 1
                 /\ \A m \in (i + 1)..(MatchOf(i) - 1) :
                       DescendsFrom(stream.tokens[m], stream.tokens[i].parent)

\* a completed stream with a container inside a container inside the root
C29_Witness ==
    /\ Completed
    /\ \E i, j, k \in 1..Len(stream.tokens) :
          /\ i < j /\ j < k /\ k < MatchOf(k) /\ MatchOf(k) < MatchOf(j) /\ MatchOf(j) < MatchOf(i)
          /\ stream.tokens[i].kind = "OPEN" /\ stream.tokens[j].kind = "OPEN"
          /\ stream.tokens[k].kind = "OPEN"

Reversed(s) == [i \in 1..Len(s) |-> s[Len(s) + 1 - i]]

\* the list xdumps hands to TokenStream when both limiters are disabled
Extended(given) == given \o libpath_path_as_posix \o wrap_derived_class_instances

\* cs without the entries that are not in keep, the order kept
Surviving(cs, keep) == SelectSeq(cs, LAMBDA fn : Contains(keep, fn))

HoldsInt(v) == v.t = "int" \/ \E i \in 1..Len(Items(v)) : Items(v)[i].t = "int"

\* C30: TokenStream registers each caller customizer at index 0, so the
\* customizers supplied as c1..cn are consulted in the order cn..c1, ahead of
\* the four built-in stages; in the top-level render the wrap customizer,
\* appended last, is the first one consulted
C30_ReverseOrder ==
    RenderDone =>
        /\ SubSeq(TokenStream(Extended(stream.supplied)), 1, Len(Extended(stream.supplied)))
             = Reversed(Extended(stream.supplied))
        /\ \A i \in Len(Extended(stream.supplied)) + 1 .. Len(TokenStream(Extended(stream.supplied))) :
              TokenStream(Extended(stream.supplied))[i] \in BuiltinStages
        /\ (stream.first.customizers # <<>> =>
              /\ stream.first.customizers[1] = wrap_derived_class_instances[1]
              /\ stream.first.customizers
                   = Surviving(TokenStream(Extended(stream.supplied)), stream.first.customizers))
        /\ (stream.first.customizers # <<>> /\ HoldsInt(stream.value)) =>
              /\ stream.supplied = <<uRaiseInt, uStr>> => Contains(stream.first.customizers, uRaiseInt)
              /\ stream.supplied = <<uStr, uRaiseInt>> => ~Contains(stream.first.customizers, uRaiseInt)

\* the customizer supplied last answers an int with a string, so the raising
\* one supplied first is never consulted and stays registered
C30_Witness ==
    /\ RenderDone
    /\ stream.supplied = <<uRaiseInt, uStr>>
    /\ HoldsInt(stream.value)
    /\ Contains(stream.first.customizers, uRaiseInt)
    /\ \E i \in 1..Len(stream.first.text) : stream.first.text[i] = "S"

=============================================================================
